---- MODULE Spec2Model ----
(***************************************************************************)
(* ACP Bridge daemon (src/src/daemon.ts): the agent registry, the ask      *)
(* executor, the permission queue and the cancel paths, as a state machine.*)
(*                                                                         *)
(* The daemon is a single-threaded event loop: every action below is the   *)
(* code that runs between two awaits of one handler or callback.  Records  *)
(* are objects: a handler that captured a record before an await keeps     *)
(* acting on that object even after the registry dropped or replaced it,   *)
(* so records live in a sequence and the registry maps a name to an index. *)
(*                                                                         *)
(* Optional values (T | null) are sequences: <<>> is null, <<v>> is v.     *)
(* Text (currentText, lastText, a response) is a sequence of chunks, so    *)
(* string concatenation is \o.  An error message is a sequence of words.   *)
(***************************************************************************)
EXTENDS Integers, Sequences, FiniteSets, TLC

\* ------------------------------------------------------------------ bounds
MaxRecords == 2     \* AgentRecords ever created
MaxAsks == 2        \* asks ever accepted
MaxTaskAsks == 3             \* asks in all, those of the subtasks of tasks included
MaxRequests == 2    \* permission requests ever parked
MaxText == 1        \* chunks accumulated in one currentText
MaxClock == 1       \* readings of the wall clock
MaxCancels == 1     \* POST /agents/:name/cancel handlers awaiting at once
MaxResolving == 1   \* approve and deny handlers awaiting their body at once
MaxTasks == 1       \* tasks ever created
MaxTaskCancels == 1 \* DELETE /tasks/:id handlers awaiting at once
MaxWords == 2       \* words in the message of a prompt's error
MaxSubtasks == 2    \* subtasks of a body whose dependency graph is drawn freely

\* the agent names the HTTP callers use; the agent-level specifications drive one
Names == {"a1", "a2"}
OneName == {"a1"}

None == <<>>
Some(v) == <<v>>

\* ------------------------------------------------------------ input values
\* kind is a string; startsWith reads its characters, so a kind is kept as
\* the sequence of its characters.
KindAllowOnce == <<"a", "l", "l", "o", "w", "_", "o", "n", "c", "e">>
KindRejectOnce == <<"r", "e", "j", "e", "c", "t", "_", "o", "n", "c", "e">>
KindOther == <<"a", "l", "l">>

Opt(id, kind) == [optionId |-> id, kind |-> kind]

\* params.options of the permission requests an agent may send
OptionLists ==
    { <<>>,
      << Opt("o1", KindAllowOnce), Opt("o2", KindRejectOnce) >>,
      << Opt("o3", KindOther), Opt("o2", KindRejectOnce), Opt("o1", KindAllowOnce) >>,
      << Opt("o3", KindOther) >>,
      << Opt("", KindAllowOnce), Opt("o2", KindRejectOnce) >> }

\* the usual request: one allow and one reject option
UsualOptions == { << Opt("o1", KindAllowOnce), Opt("o2", KindRejectOnce) >> }

\* body.optionId of approve/deny: absent (None) or a string
ExplicitIds == { None, Some(""), Some("o2"), Some("o3"), Some("zz") }

\* update.content.text of an agent_message_chunk ("" when not a text payload)
ChunkTexts == { "", "x" }

\* response.stopReason of a settled prompt (absent: None)
StopReasons == { None, Some("end_turn") }

\* the message of the error a prompt rejects with
RawErrors == { <<"boom">>, <<"status", "429">> }

\* the words of an error message the classifier tells apart, and the messages
\* made of them
Words == { "401", "403", "429", "503", "ECONNREFUSED", "ENOTFOUND", "boom" }
Messages == UNION { [1..n -> Words] : n \in 0..MaxWords }

\* ----------------------------------------------------------------- state
VARIABLES
    agents,                  \* the registry: name -> index into records, 0 when absent
    records,                 \* every AgentRecord object ever created
    children,                \* records[r].child: "running", "killed" (SIGTERM sent), "exited"
    starting,                \* name -> the startAgent calls under way: how many await the
                             \* preflight, how many the handshake of the child they spawned
    asks,                    \* every accepted askAgent call and the prompt it sent
    chunkSubscribers,        \* name -> the onChunk callbacks (by ask) subscribed
    nextPermissionRequestId,
    continuations,           \* per requestId: the record it was parked on, its options, and
                             \* every response its resolve() was called with
    cancels,                 \* POST /agents/:name/cancel handlers awaiting connection.cancel:
                             \* the record each looked up
    resolving,               \* approve and deny handlers awaiting their body: the
                             \* record each looked up
    clock,                   \* Date.now()
    response,                \* what the step just taken returned or threw to its caller
    tasks,                   \* every TaskRecord ever stored
    taskCancels              \* cancelTask calls awaiting connection.cancel: the task, its
                             \* cancelAgents, the entry and the record reached, the count

taskVars == << tasks, taskCancels >>

vars == << agents, records, children, starting, asks, chunkSubscribers,
           nextPermissionRequestId, continuations, resolving, cancels,
           clock, response, taskVars >>

\* ------------------------------------------------------------ pure helpers
StartsWith(s, p) == Len(s) >= Len(p) /\ SubSeq(s, 1, Len(p)) = p

Allow == <<"a", "l", "l", "o", "w">>
Reject == <<"r", "e", "j", "e", "c", "t">>

\* Array.prototype.find: the first element satisfying the test, as an optional
RECURSIVE FindFirst(_, _)
FindFirst(options, prefix) ==
    IF options = <<>> THEN None
    ELSE IF StartsWith(Head(options).kind, prefix) THEN Some(Head(options))
    ELSE FindFirst(Tail(options), prefix)

\* a JavaScript string is truthy unless it is empty
Truthy(optId) == optId # None /\ optId[1] # ""

\* a findPermissionOptionId that skips the kind preference
findPermissionOptionId_FirstOnly(options, mode, explicitOptionId) ==
    IF Truthy(explicitOptionId) /\ \E i \in 1..Len(options) : options[i].optionId = explicitOptionId[1]
    THEN explicitOptionId
    ELSE IF options # <<>> THEN Some(options[1].optionId)
    ELSE None

findPermissionOptionId(options, mode, explicitOptionId) ==
    IF Truthy(explicitOptionId) /\ \E i \in 1..Len(options) : options[i].optionId = explicitOptionId[1]
    THEN explicitOptionId
    ELSE LET preferred == FindFirst(options, IF mode = "approve" THEN Allow ELSE Reject)
         IN  IF preferred # None THEN Some(preferred[1].optionId)
             ELSE IF options # <<>> THEN Some(options[1].optionId)
             ELSE None

Cancelled == [outcome |-> "cancelled", optionId |-> ""]
Selected(id) == [outcome |-> "selected", optionId |-> id]

\* pending.resolve(outcome): the continuation of request id receives outcome
Deliver(conts, id, outcome) ==
    [conts EXCEPT ![id].outcomes = Append(@, outcome)]

\* a resolvePendingPermission that takes the newest request (pop for shift)
resolvePendingPermission_Pop(record, conts, decision, explicitOptionId, now) ==
    IF record.pendingPermissions = <<>>
    THEN [record |-> record, conts |-> conts, pending |-> None]
    ELSE LET n == Len(record.pendingPermissions)
             pending == record.pendingPermissions[n]
             optionId == findPermissionOptionId(pending.options, decision, explicitOptionId)
             outcome == IF decision = "cancel" THEN Cancelled
                        ELSE IF Truthy(optionId) THEN Selected(optionId[1])
                        ELSE Cancelled
         IN  [record |-> [record EXCEPT !.pendingPermissions = SubSeq(@, 1, n - 1),
                                        !.updatedAt = now],
              conts |-> Deliver(conts, pending.requestId, outcome),
              pending |-> Some(pending)]

\* a resolvePendingPermission that stamps updatedAt before looking at the queue
resolvePendingPermission_TouchFirst(record, conts, decision, explicitOptionId, now) ==
    IF record.pendingPermissions = <<>>
    THEN [record |-> [record EXCEPT !.updatedAt = now], conts |-> conts, pending |-> None]
    ELSE LET pending == Head(record.pendingPermissions)
             optionId == findPermissionOptionId(pending.options, decision, explicitOptionId)
             outcome == IF decision = "cancel" THEN Cancelled
                        ELSE IF Truthy(optionId) THEN Selected(optionId[1])
                        ELSE Cancelled
         IN  [record |-> [record EXCEPT !.pendingPermissions = Tail(@), !.updatedAt = now],
              conts |-> Deliver(conts, pending.requestId, outcome),
              pending |-> Some(pending)]

\* The result of resolvePendingPermission: the record and the continuations
\* afterwards, and the request it returns (None for null).
resolvePendingPermission(record, conts, decision, explicitOptionId, now) ==
    IF record.pendingPermissions = <<>>
    THEN [record |-> record, conts |-> conts, pending |-> None]
    ELSE LET pending == Head(record.pendingPermissions)
             optionId == findPermissionOptionId(pending.options, decision, explicitOptionId)
             outcome == IF decision = "cancel" THEN Cancelled
                        ELSE IF Truthy(optionId) THEN Selected(optionId[1])
                        ELSE Cancelled
         IN  [record |-> [record EXCEPT !.pendingPermissions = Tail(@), !.updatedAt = now],
              conts |-> Deliver(conts, pending.requestId, outcome),
              pending |-> Some(pending)]

\* a cancelAll that resolves every queued request and leaves the queue as it was
RECURSIVE DeliverAll(_, _, _)
DeliverAll(conts, queue, outcome) ==
    IF queue = <<>> THEN conts
    ELSE DeliverAll(Deliver(conts, Head(queue).requestId, outcome), Tail(queue), outcome)

cancelAllPendingPermissions_KeepQueue(record, conts, now) ==
    [record |-> [record EXCEPT !.updatedAt = now],
     conts |-> DeliverAll(conts, record.pendingPermissions, Cancelled),
     count |-> Len(record.pendingPermissions)]

\* a cancelAll with an if for the while: it resolves the head only
cancelAllPendingPermissions_OnlyHead(record, conts, now) ==
    LET r == resolvePendingPermission(record, conts, "cancel", None, now)
    IN  [record |-> r.record, conts |-> r.conts,
         count |-> IF r.pending = None THEN 0 ELSE 1]

RECURSIVE cancelAllPendingPermissions(_, _, _)
cancelAllPendingPermissions(record, conts, now) ==
    LET r == resolvePendingPermission(record, conts, "cancel", None, now)
    IN  IF r.pending = None
        THEN [record |-> r.record, conts |-> r.conts, count |-> 0]
        ELSE LET rest == cancelAllPendingPermissions(r.record, r.conts, now)
             IN  [rest EXCEPT !.count = @ + 1]

\* classifyAskError on a message of words: the first standalone status code
\* decides, then the substrings.
RECURSIVE FirstStatus(_)
FirstStatus(message) ==
    IF message = <<>> THEN None
    ELSE IF Head(message) \in {"401", "403", "429", "503"} THEN Some(Head(message))
    ELSE FirstStatus(Tail(message))

Includes(message, word) == \E i \in 1..Len(message) : message[i] = word

classifyAskError(message) ==
    LET statusMatch == FirstStatus(message)
    IN  IF statusMatch # None /\ statusMatch[1] \in {"401", "403"}
        THEN <<"API key invalid or expired. Check your key.">>
        ELSE IF statusMatch # None /\ statusMatch[1] = "429"
        THEN <<"Rate limited. Check proxy quota.">>
        ELSE IF statusMatch # None /\ statusMatch[1] = "503"
        THEN <<"Service unavailable. Check proxy status.">>
        ELSE IF Includes(message, "ECONNREFUSED")
        THEN <<"Connection refused. Check base URL.">>
        ELSE IF Includes(message, "ENOTFOUND")
        THEN <<"DNS resolution failed. Check network.">>
        ELSE message


\* ------------------------------------------------------------ the records
NewRecord(name, protocolOk, now, stderrBuffer) ==
    [ name |-> name,
      state |-> "idle",
      lastError |-> IF protocolOk THEN None ELSE Some(<<"protocol", "mismatch">>),
      lastText |-> <<>>,
      currentText |-> <<>>,
      stopReason |-> None,
      pendingPermissions |-> <<>>,
      stderrBuffer |-> stderrBuffer,
      activeTask |-> None,
      updatedAt |-> now ]

\* a response: the handler, its HTTP status, the error and a count or id; for
\* an ask that returned, the AskResult and the chunks its onChunk received
Resp(op, status, error, n) ==
    [op |-> op, status |-> status, error |-> error, n |-> n,
     text |-> <<>>, stopReason |-> None, chunks |-> <<>>, message |-> <<>>]

NoResponse == Resp("none", 0, "", 0)

TimeoutMessage == <<"ask", "timeout", "after", "300000ms">>

ChildAlive(r) == children[r] \in {"running", "killed"}

\* a name with no startAgent call under way: preflight counts the calls that
\* await their endpoint check, handshake lists the calls that await
\* spawnAgentConnection, each with the stderrBuffer its listener fills and
\* the state of its child
NoStart == [preflight |-> 0, handshake |-> <<>>]

\* startAgent at the call of spawnAgentConnection: an empty stderrBuffer and
\* a child that runs
NewHandshake == [stderrBuffer |-> <<>>, child |-> "running"]

Init ==
    /\ agents = [n \in Names |-> 0]
    /\ records = <<>>
    /\ children = <<>>
    /\ starting = [n \in Names |-> NoStart]
    /\ asks = <<>>
    /\ chunkSubscribers = [n \in Names |-> {}]
    /\ nextPermissionRequestId = 1
    /\ continuations = <<>>
    /\ resolving = <<>>
    /\ cancels = <<>>
    /\ clock = 0
    /\ response = NoResponse
    /\ tasks = <<>>
    /\ taskCancels = <<>>

\* a list of handlers in flight without its entry i
Without(seq, i) == [k \in 1..(Len(seq) - 1) |-> IF k < i THEN seq[k] ELSE seq[k + 1]]

\* the wall clock advances between any two steps
Tick ==
    /\ clock < MaxClock
    /\ clock' = clock + 1
    /\ response' = NoResponse
    /\ UNCHANGED << agents, records, children, starting, asks, chunkSubscribers,
                    nextPermissionRequestId, continuations, cancels, taskVars, resolving >>

\* ---------------------------------------------------------- agent lifecycle
RECURSIVE SumOver(_, _)
SumOver(f, S) ==
    IF S = {} THEN 0
    ELSE LET x == CHOOSE y \in S : TRUE IN f[x] + SumOver(f, S \ {x})

InFlightStarts ==
    SumOver([n \in Names |-> starting[n].preflight + Len(starting[n].handshake)], Names)

\* the agent types told apart: one without credential and endpoint, one with
AgentTypes == {"opencode", "claude"}

BinaryNotFound(type) ==
    IF type = "claude" THEN "claude-agent-acp binary not found on PATH. Install it globally first."
    ELSE "opencode binary not found on PATH. Install OpenCode first."

KeyMissing == "ANTHROPIC_API_KEY is not set. Set it in environment or config."

Unreachable == "Proxy https://api.anthropic.com is unreachable (ECONNREFUSED). Check the URL."

getApiKeyRequirement(type) ==
    IF type = "claude" THEN [required |-> TRUE, message |-> KeyMissing]
    ELSE [required |-> FALSE, message |-> ""]

getTypeBaseUrl(type) ==
    IF type = "claude" THEN Some("https://api.anthropic.com") ELSE None

\* preflightCheck up to its await: the error it throws (None when it throws
\* none), binary telling whether the command exists and key whether the
\* credential is set
preflightCheck(type, binary, key) ==
    IF ~binary THEN Some(BinaryNotFound(type))
    ELSE IF getApiKeyRequirement(type).required /\ ~key
         THEN Some(getApiKeyRequirement(type).message)
    ELSE None

\* the loop over the candidates reaches spawn(): a child runs, not yet registered
spawnAgentConnection(name) ==
    starting' = [starting EXCEPT ![name].handshake = Append(@, NewHandshake)]

\* a startAgent that spawns before it runs the preflight
StartAgentCheck_SpawnFirst(name, type, binary, key) ==
    /\ IF agents[name] # 0
       THEN /\ response' = Resp("start", 500, "Agent already exists", 0)
            /\ UNCHANGED starting
       ELSE /\ Len(records) + InFlightStarts < MaxRecords
            /\ LET failed == preflightCheck(type, binary, key) IN
               IF failed # None
               THEN /\ response' = Resp("start", 400, failed[1], 0)
                    /\ spawnAgentConnection(name)
               ELSE /\ response' = NoResponse
                    /\ spawnAgentConnection(name)
    /\ UNCHANGED << agents, records, children, asks, chunkSubscribers,
                    nextPermissionRequestId, continuations, cancels, clock,
                    taskVars, resolving >>

\* startAgent up to its first real wait: the name check and preflightCheck
\* up to the endpoint check; without an endpoint to check, the spawn.
StartAgentCheck(name, type, binary, key) ==
    /\ IF agents[name] # 0
       THEN /\ response' = Resp("start", 500, "Agent already exists", 0)
            /\ UNCHANGED starting
       ELSE /\ Len(records) + InFlightStarts < MaxRecords
            /\ LET failed == preflightCheck(type, binary, key) IN
               IF failed # None
               THEN /\ response' = Resp("start", 400, failed[1], 0)
                    /\ UNCHANGED starting
               ELSE /\ response' = NoResponse
                    /\ IF getTypeBaseUrl(type) = None
                       THEN spawnAgentConnection(name)
                       ELSE starting' = [starting EXCEPT ![name].preflight = @ + 1]
    /\ UNCHANGED << agents, records, children, asks, chunkSubscribers,
                    nextPermissionRequestId, continuations, cancels, clock,
                    taskVars, resolving >>

\* the endpoint check of a preflight settles: unreachable, the start throws;
\* reachable, preflightCheck returns and the child is spawned
PreflightSettle(name, reachable) ==
    /\ starting[name].preflight > 0
    /\ IF reachable
       THEN /\ starting' = [starting EXCEPT ![name].preflight = @ - 1,
                                             ![name].handshake = Append(@, NewHandshake)]
            /\ response' = NoResponse
       ELSE /\ starting' = [starting EXCEPT ![name].preflight = @ - 1]
            /\ response' = Resp("start", 400, Unreachable, 0)
    /\ UNCHANGED << agents, records, children, asks, chunkSubscribers,
                    nextPermissionRequestId, continuations, cancels, clock,
                    taskVars, resolving >>

\* spawn or handshake failed for every candidate: the child is killed, the
\* start throws (400 for a spawn error, 500 for any other), nothing is registered
StartAgentFail(name, status) ==
    /\ \E h \in 1..Len(starting[name].handshake) :
          starting' = [starting EXCEPT ![name].handshake = Without(@, h)]
    /\ response' = Resp("start", status, "start failed", 0)
    /\ UNCHANGED << agents, records, children, asks, chunkSubscribers,
                    nextPermissionRequestId, continuations, cancels, clock,
                    taskVars, resolving >>

\* the handshake completed: the record is built with the stderrBuffer filled
\* so far and registered under its name; the exit listener is attached only
\* now, so a child that exited before stays unnoticed
StartAgentRegister(name, protocolOk) ==
    /\ \E h \in 1..Len(starting[name].handshake) :
          LET call == starting[name].handshake[h] IN
          /\ starting' = [starting EXCEPT ![name].handshake = Without(@, h)]
          /\ records' = Append(records,
                               NewRecord(name, protocolOk, clock, call.stderrBuffer))
          /\ children' = Append(children, call.child)
    /\ agents' = [agents EXCEPT ![name] = Len(records) + 1]
    /\ response' = Resp("start", 201, "", Len(records) + 1)
    /\ UNCHANGED << asks, chunkSubscribers, nextPermissionRequestId, continuations,
                    cancels, clock, taskVars, resolving >>

\* the record and the continuations after the body of stopAgent's try block
stopAgentEffect(record, conts, now) ==
    LET c == cancelAllPendingPermissions(record, conts, now) IN
    [ record |-> [c.record EXCEPT !.state = "stopped", !.updatedAt = now],
      conts |-> c.conts,
      count |-> c.count ]

\* stopAgent(name), also what DELETE /agents/:name and the shutdown loop run
StopAgent(name) ==
    LET r == agents[name] IN
    IF r = 0
    THEN /\ response' = Resp("stop", 404, "not_found", 0)
         /\ UNCHANGED << agents, records, children, starting, asks, chunkSubscribers,
                         nextPermissionRequestId, continuations, cancels, clock,
                         taskVars, resolving >>
    ELSE LET e == stopAgentEffect(records[r], continuations, clock) IN
         /\ records' = [records EXCEPT ![r] = e.record]
         /\ continuations' = e.conts
         /\ children' = [children EXCEPT ![r] = IF @ = "running" THEN "killed" ELSE @]
         /\ agents' = [agents EXCEPT ![name] = 0]
         /\ response' = Resp("stop", 200, "", e.count)
         /\ UNCHANGED << starting, asks, chunkSubscribers, nextPermissionRequestId,
                         cancels, clock, taskVars, resolving >>

ExitMessage(r) ==
    IF children[r] = "killed" THEN <<"exit", "code=null", "signal=SIGTERM">>
    ELSE <<"exit", "code=1", "signal=null">>

\* an exit listener that marks the agent stopped whatever its state was
exitListenerEffect_AlwaysStopped(target, conts, message, now) ==
    LET c == cancelAllPendingPermissions(target, conts, now) IN
    [ record |-> [c.record EXCEPT
                    !.updatedAt = now,
                    !.state = "stopped",
                    !.lastError = IF @ # None THEN @ ELSE Some(message)],
      conts |-> c.conts ]

\* the record after the body of the child's exit listener ran on it
exitListenerEffect(target, conts, message, now) ==
    LET c == cancelAllPendingPermissions(target, conts, now) IN
    [ record |-> [c.record EXCEPT
                    !.updatedAt = now,
                    !.state = IF @ = "error" THEN "error" ELSE "stopped",
                    !.lastError = IF @ # None THEN @ ELSE Some(message)],
      conts |-> c.conts ]

\* the child of record r exits; its listener looks the name up in the registry
ChildExit(r) ==
    /\ r \in 1..Len(records)
    /\ ChildAlive(r)
    /\ children' = [children EXCEPT ![r] = "exited"]
    /\ LET t == agents[records[r].name] IN
       IF t = 0
       THEN UNCHANGED << records, continuations >>
       ELSE LET e == exitListenerEffect(records[t], continuations, ExitMessage(r), clock) IN
            /\ records' = [records EXCEPT ![t] = e.record]
            /\ continuations' = e.conts
    /\ response' = NoResponse
    /\ UNCHANGED << agents, starting, asks, chunkSubscribers, nextPermissionRequestId,
                    cancels, clock, taskVars, resolving >>

\* ------------------------------------------------------------------ stderr
MAX_STDERR_LINES == 50

\* Text is a sequence of characters.
Whitespace == {" ", "\t", "\r", "\n"}

\* String.prototype.trim
RECURSIVE trimStart(_)
trimStart(s) ==
    IF s # <<>> /\ Head(s) \in Whitespace THEN trimStart(Tail(s)) ELSE s

RECURSIVE trimEnd(_)
trimEnd(s) ==
    IF s # <<>> /\ s[Len(s)] \in Whitespace THEN trimEnd(SubSeq(s, 1, Len(s) - 1)) ELSE s

trim(s) == trimEnd(trimStart(s))

\* data.split(/\r?\n/g), piece being the characters since the last separator
RECURSIVE splitLines(_, _)
splitLines(data, piece) ==
    IF data = <<>> THEN << piece >>
    ELSE IF Head(data) = "\n"
         THEN << piece >> \o splitLines(Tail(data), <<>>)
    ELSE IF Head(data) = "\r" /\ Len(data) >= 2 /\ data[2] = "\n"
         THEN << piece >> \o splitLines(SubSeq(data, 3, Len(data)), <<>>)
    ELSE splitLines(Tail(data), Append(piece, Head(data)))

\* the lines the child's stderr listener hands to onStderrLine for one chunk
stderrLines(data) ==
    LET pieces == splitLines(data, <<>>)
        trimmed == [i \in 1..Len(pieces) |-> trim(pieces[i])]
    IN  SelectSeq(trimmed, LAMBDA line : Len(line) > 0)

\* a pushStderrLine that drops the newest lines of a full buffer
pushStderrLine_DropNewest(buffer, line) ==
    LET normalized == trim(line) IN
    IF normalized = <<>> THEN buffer
    ELSE LET pushed == Append(buffer, normalized) IN
         IF Len(pushed) > MAX_STDERR_LINES
         THEN SubSeq(pushed, 1, MAX_STDERR_LINES)
         ELSE pushed

pushStderrLine(buffer, line) ==
    LET normalized == trim(line) IN
    IF normalized = <<>> THEN buffer
    ELSE LET pushed == Append(buffer, normalized) IN
         IF Len(pushed) > MAX_STDERR_LINES
         THEN SubSeq(pushed, Len(pushed) - MAX_STDERR_LINES + 1, Len(pushed))
         ELSE pushed

\* startAgent's onStderrLine while its record is not built yet
RECURSIVE onStderrLinesEarly(_, _)
onStderrLinesEarly(buffer, lines) ==
    IF lines = <<>> THEN buffer
    ELSE onStderrLinesEarly(pushStderrLine(buffer, Head(lines)), Tail(lines))

\* startAgent's onStderrLine, once its record exists
onStderrLine(record, line, now) ==
    [record EXCEPT !.stderrBuffer = pushStderrLine(@, line),
                   !.updatedAt = now,
                   !.lastError = Some(line)]

RECURSIVE onStderrLines(_, _, _)
onStderrLines(record, lines, now) ==
    IF lines = <<>> THEN record
    ELSE onStderrLines(onStderrLine(record, Head(lines), now), Tail(lines), now)

\* the child of record r writes a chunk to its stderr
StderrData(r, data) ==
    /\ r \in 1..Len(records)
    /\ records' = [records EXCEPT ![r] = onStderrLines(@, stderrLines(data), clock)]
    /\ response' = NoResponse
    /\ UNCHANGED << agents, children, starting, asks, chunkSubscribers,
                    nextPermissionRequestId, continuations, cancels, clock,
                    taskVars, resolving >>

\* a chunk of the stderr of a child awaiting its handshake under the name is
\* read, whether or not the child has exited since it wrote it
StderrBeforeRegister(name, data) ==
    /\ \E h \in 1..Len(starting[name].handshake) :
          /\ starting' = [starting EXCEPT ![name].handshake[h].stderrBuffer =
                              onStderrLinesEarly(@, stderrLines(data))]
    /\ response' = NoResponse
    /\ UNCHANGED << agents, records, children, asks, chunkSubscribers,
                    nextPermissionRequestId, continuations, cancels, clock,
                    taskVars, resolving >>

\* a child awaiting its handshake under the name exits, its answers written:
\* no exit listener is attached to it yet
ChildExitBeforeRegister(name) ==
    /\ \E h \in 1..Len(starting[name].handshake) :
          /\ starting[name].handshake[h].child = "running"
          /\ starting' = [starting EXCEPT ![name].handshake[h].child = "exited"]
    /\ response' = NoResponse
    /\ UNCHANGED << agents, records, children, asks, chunkSubscribers,
                    nextPermissionRequestId, continuations, cancels, clock,
                    taskVars, resolving >>

\* The child writes the lines a, b, "c c", a, b, ... in chunks of up to three
\* lines, with blanks, blank lines and both line endings around them; the
\* next line is the one after the last line captured.
LineOf(label) == IF label = "c" THEN <<"c", " ", "c">> ELSE << label >>

After(label) == IF label = "a" THEN "b" ELSE IF label = "b" THEN "c" ELSE "a"

NextLabel(buffer) ==
    IF buffer = <<>> THEN "a" ELSE After(buffer[Len(buffer)][1])

Chunks(l1) ==
    LET l2 == After(l1)
        l3 == After(l2)
    IN  { <<>>,
          <<" ", "\n", "\t", "\r", "\n">>,
          LineOf(l1) \o <<"\n">>,
          <<" ", "\t">> \o LineOf(l1) \o <<" ", "\r", "\n">>,
          LineOf(l1) \o <<"\n", "\n">> \o LineOf(l2),
          <<"\n">> \o LineOf(l1) \o <<"\r", "\n", " ", "\n">> \o LineOf(l2)
              \o <<"\t", "\n">> \o LineOf(l3) \o <<"\r">> }

\* ------------------------------------------------------------ ask executor
\* an askAgent that resets the record before it looks at the state
askAgentEntry_ResetFirst(record, activeTask, now) ==
    IF record.state = "working"
    THEN [accepted |-> FALSE,
          record |-> [record EXCEPT !.currentText = <<>>, !.stopReason = None,
                                    !.activeTask = activeTask]]
    ELSE [accepted |-> TRUE,
          record |-> [record EXCEPT !.state = "working",
                                    !.updatedAt = now,
                                    !.currentText = <<>>,
                                    !.stopReason = None,
                                    !.activeTask = activeTask]]

askAgentEntry_AlwaysAccepts(record, activeTask, now) ==
    [accepted |-> TRUE,
     record |-> [record EXCEPT !.state = "working",
                               !.updatedAt = now,
                               !.currentText = <<>>,
                               !.stopReason = None,
                               !.activeTask = activeTask]]

\* askAgent from the lookup to the call of connection.prompt, on the record
\* the lookup found: whether the ask is accepted, and the record afterwards.
askAgentEntry(record, activeTask, now) ==
    IF record.state = "working"
    THEN [accepted |-> FALSE, record |-> record]
    ELSE [accepted |-> TRUE,
          record |-> [record EXCEPT !.state = "working",
                                    !.updatedAt = now,
                                    !.currentText = <<>>,
                                    !.stopReason = None,
                                    !.activeTask = activeTask]]

\* the prompt won the race
askAgentResolved(record, stopReason, now) ==
    [record EXCEPT !.state = "idle",
                   !.stopReason = stopReason,
                   !.lastText = record.currentText,
                   !.updatedAt = now]

askAgentTimedOut_AsError(record, now) ==
    [record EXCEPT !.state = "error",
                   !.lastError = Some(classifyAskError(TimeoutMessage)),
                   !.updatedAt = now]

\* the timer won the race (HttpError 408)
askAgentTimedOut(record, now) ==
    [record EXCEPT !.state = "idle",
                   !.stopReason = Some("timeout"),
                   !.lastError = Some(TimeoutMessage),
                   !.updatedAt = now]

askAgentRejected_Raw(record, message, now) ==
    [record EXCEPT !.state = "error",
                   !.lastError = Some(message),
                   !.updatedAt = now]

\* the prompt rejected
askAgentRejected(record, message, now) ==
    [record EXCEPT !.state = "error",
                   !.lastError = Some(classifyAskError(message)),
                   !.updatedAt = now]

\* a finally block that leaves the marker where it is
askAgentFinally_KeepMarker(record, activeTask) == record

\* the finally block's activeTask guard
askAgentFinally(record, activeTask) ==
    IF activeTask = None \/ (record.activeTask # None /\ record.activeTask = activeTask)
    THEN [record EXCEPT !.activeTask = None]
    ELSE record

subscribeChunks(subs, name, a) == [subs EXCEPT ![name] = @ \cup {a}]
\* an unsubscribe that leaves the callback in the set
unsubscribe_Keep(subs, name, a) == subs

unsubscribe(subs, name, a) == [subs EXCEPT ![name] = @ \ {a}]

\* an accepted ask: the record it captured, its marker, whether it subscribed
\* an onChunk, where it stands (awaiting the race, returned), its prompt
\* (outstanding, resolved, rejected) and the chunks its onChunk received
NewAsk(r, activeTask, onChunk, sent) ==
    [ rec |-> r, activeTask |-> activeTask, onChunk |-> onChunk, sent |-> sent,
      pc |-> "awaiting", prompt |-> "outstanding", chunks |-> <<>> ]

\* ------------------------------------------------------------------ tasks
MAX_COMPLETED_TASKS == 100
TASK_TTL_MS == 3600000

\* a prompt is a sequence of pieces: a word, or a placeholder {{id.result}}
Word(w) == [word |-> w, ref |-> ""]
Ref(id) == [word |-> "", ref |-> id]
Plain == << Word("p") >>

\* a subtask of a POST /tasks body: id ("" when absent), agent, prompt, dependsOn
Sub(id, agent, prompt, dependsOn) ==
    [id |-> id, agent |-> agent, prompt |-> prompt, dependsOn |-> dependsOn]

Body(name, subtasks) == [name |-> name, subtasks |-> subtasks]

\* a task of one subtask on agent a1
OneSubtaskBodies == { Body("t", << Sub("", "a1", Plain, <<>>) >>) }

\* and a task of two subtasks on a1, the second depending on the first
RunnableBodies ==
    OneSubtaskBodies
        \cup { Body("t", << Sub("s1", "a1", Plain, <<>>), Sub("s2", "a1", Plain, << "s1" >>) >>) }

\* the ids s1, s2, ... of a set of subtask positions, in ascending order
SubtaskNames == << "s1", "s2", "s3", "s4" >>

RECURSIVE NamesOf(_)
NamesOf(positions) ==
    IF positions = {} THEN <<>>
    ELSE LET i == CHOOSE i \in positions : \A j \in positions : i <= j
         IN  << SubtaskNames[i] >> \o NamesOf(positions \ {i})

\* every dependency graph on up to MaxSubtasks subtasks s1, s2, ... of agent
\* a1: each subtask depends on any set of the subtasks, itself included
GraphBodies ==
    UNION { { Body("t", [i \in 1..n |-> Sub(SubtaskNames[i], "a1", Plain, NamesOf(graph[i]))]) :
                graph \in [1..n -> SUBSET (1..n)] } :
            n \in 1..MaxSubtasks }

\* tasks over the agents a1 and a2: two subtasks side by side on two agents, a
\* subtask whose prompt quotes the subtask of the other agent it waits for, the
\* same on one agent, two subtasks of a1 with no path between them, the
\* second waiting for a subtask of a2, and two subtasks of a1 side by side
SiblingBodies ==
    { Body("t", << Sub("s1", "a1", Plain, <<>>), Sub("s2", "a2", Plain, <<>>) >>),
      Body("t", << Sub("s1", "a1", Plain, <<>>),
                   Sub("s2", "a2", << Word("p"), Ref("s1") >>, << "s1" >>) >>),
      Body("t", << Sub("s1", "a1", Plain, <<>>),
                   Sub("s2", "a1", << Word("p"), Ref("s1") >>, << "s1" >>) >>),
      Body("t", << Sub("s1", "a2", Plain, <<>>), Sub("s2", "a1", Plain, <<>>),
                   Sub("s3", "a1", Plain, << "s1" >>) >>),
      Body("t", << Sub("s1", "a1", Plain, <<>>), Sub("s2", "a1", Plain, <<>>) >>) }

\* tasks whose last subtask quotes a subtask it does not depend on: s3 waits
\* for s1 and quotes s2, which runs on the other agent; s2 quotes s1, which
\* runs beside it
QuotingBodies ==
    { Body("t", << Sub("s1", "a1", Plain, <<>>), Sub("s2", "a2", Plain, <<>>),
                   Sub("s3", "a1", << Word("p"), Ref("s2") >>, << "s1" >>) >>),
      Body("t", << Sub("s1", "a1", Plain, <<>>),
                   Sub("s2", "a2", << Word("p"), Ref("s1") >>, <<>>) >>) }

\* tasks of four subtasks in which a waiter listed earlier registers again
\* behind a waiter listed later: s3 waits for s1 and s2, s4 for s2 alone, and
\* s1 ends before s2; here with s2 on a2 beside s1 and quoted by s4
RacingPair ==
    { Body("t", << Sub("s1", "a1", Plain, <<>>), Sub("s2", "a2", Plain, <<>>),
                   Sub("s3", "a1", Plain, << "s1", "s2" >>),
                   Sub("s4", "a1", << Word("p"), Ref("s2") >>, << "s2" >>) >>) }

\* and the same with all four on a1, s2 behind s1
RacingBodies ==
    RacingPair
        \cup { Body("t", << Sub("s1", "a1", Plain, <<>>), Sub("s2", "a1", Plain, << "s1" >>),
                            Sub("s3", "a1", Plain, << "s1", "s2" >>),
                            Sub("s4", "a1", Plain, << "s2" >>) >>) }

\* bodies of three subtasks and of particular ids: a subtask behind two paths,
\* a chain whose last subtask quotes the first, which it does not name in its
\* dependsOn, a cycle of three, the same id twice, a generated id taken by an
\* earlier subtask, a dependency on a generated id, a dependency on no subtask
ShapedBodies ==
    { Body("t", << Sub("s1", "a1", Plain, <<>>),
                   Sub("s2", "a1", << Word("p"), Ref("s1") >>, << "s1" >>),
                   Sub("s3", "a1", << Ref("s1"), Word("q"), Ref("s2"), Ref("zz") >>,
                       << "s1", "s2" >>) >>),
      Body("t", << Sub("s1", "a1", Plain, <<>>), Sub("s2", "a1", Plain, << "s1" >>),
                   Sub("s3", "a1", << Word("p"), Ref("s1") >>, << "s2" >>) >>),
      Body("t", << Sub("s1", "a1", Plain, << "s3" >>), Sub("s2", "a1", Plain, << "s1" >>),
                   Sub("s3", "a1", Plain, << "s2" >>) >>),
      Body("t", << Sub("s1", "a1", Plain, <<>>), Sub("s1", "a1", Plain, <<>>) >>),
      Body("t", << Sub("subtask-2", "a1", Plain, <<>>), Sub("", "a1", Plain, <<>>) >>),
      Body("t", << Sub("", "a1", Plain, <<>>),
                   Sub("", "a1", << Ref("subtask-1") >>, << "subtask-1" >>) >>),
      Body("t", << Sub("s1", "a1", Plain, << "zz" >>) >>) }

\* `subtask-${index + 1}`
GeneratedId(index) == << "subtask-1", "subtask-2", "subtask-3" >>[index]

SubtaskId(raw, index) == IF raw.id # "" THEN raw.id ELSE GeneratedId(index)

isSubtaskTerminal(state) == state \in {"done", "error", "cancelled"}

isTaskTerminal(state) == state \in {"done", "error", "cancelled"}

\* findTaskSubtask: the index of the first subtask with that id, 0 when none
findTaskSubtask(subtasks, subtaskId) ==
    LET hits == {i \in 1..Len(subtasks) : subtasks[i].id = subtaskId} IN
    IF hits = {} THEN 0 ELSE CHOOSE i \in hits : \A j \in hits : i <= j

\* the first loop of validateSubtaskGraph: the error of the first dependency,
\* subtask by subtask, that names no subtask or names its own
DependencyError(subtasks) ==
    LET bad(i, k) == LET depId == subtasks[i].dependsOn[k] IN
                     IF findTaskSubtask(subtasks, depId) = 0 THEN "subtask dependency not found"
                     ELSE IF depId = subtasks[i].id THEN "subtask cannot depend on itself"
                     ELSE ""
        pairs == UNION {{<<i, k>> : k \in {k \in 1..Len(subtasks[i].dependsOn) : bad(i, k) # ""}} :
                           i \in 1..Len(subtasks)}
        first == CHOOSE q \in pairs :
                     \A o \in pairs : q[1] < o[1] \/ (q[1] = o[1] /\ q[2] <= o[2])
    IN  IF pairs = {} THEN "" ELSE bad(first[1], first[2])

\* the subtasks reachable from i along dependsOn in at most n steps, at least one
RECURSIVE DependsWithin(_, _, _)
DependsWithin(subtasks, i, n) ==
    IF n = 0 THEN {}
    ELSE LET direct == {findTaskSubtask(subtasks, subtasks[i].dependsOn[k]) :
                            k \in 1..Len(subtasks[i].dependsOn)} \ {0}
         IN  direct \cup UNION {DependsWithin(subtasks, j, n - 1) : j \in direct}

\* byId.get(id): the Map keeps the last subtask entered under an id; 0: none
byId(subtasks, id) ==
    LET hits == {i \in 1..Len(subtasks) : subtasks[i].id = id} IN
    IF hits = {} THEN 0 ELSE CHOOSE i \in hits : \A j \in hits : j <= i

\* the depth-first search of validateSubtaskGraph on the sets visiting and
\* visited; cycle: the search has thrown
RECURSIVE visit(_, _, _)
RECURSIVE visitDependencies(_, _, _, _)
visit(subtasks, id, search) ==
    IF search.cycle \/ id \in search.visited THEN search
    ELSE IF id \in search.visiting THEN [search EXCEPT !.cycle = TRUE]
    ELSE LET entered == [search EXCEPT !.visiting = @ \cup {id}]
             i == byId(subtasks, id)
             inner == IF i = 0 THEN entered
                      ELSE visitDependencies(subtasks, subtasks[i].dependsOn, 1, entered)
         IN  IF inner.cycle THEN inner
             ELSE [inner EXCEPT !.visiting = @ \ {id}, !.visited = @ \cup {id}]

visitDependencies(subtasks, dependsOn, k, search) ==
    IF k > Len(dependsOn) \/ search.cycle THEN search
    ELSE visitDependencies(subtasks, dependsOn, k + 1, visit(subtasks, dependsOn[k], search))

\* the last loop of validateSubtaskGraph: visit(subtask.id) from subtask i on
RECURSIVE visitAll(_, _, _)
visitAll(subtasks, i, search) ==
    IF i > Len(subtasks) \/ search.cycle THEN search
    ELSE visitAll(subtasks, i + 1, visit(subtasks, subtasks[i].id, search))

validateSubtaskGraph_NoCycleSearch(subtasks) == DependencyError(subtasks)

\* validateSubtaskGraph: "" when the graph is accepted, else the 400 message
validateSubtaskGraph(subtasks) ==
    IF DependencyError(subtasks) # "" THEN DependencyError(subtasks)
    ELSE IF visitAll(subtasks, 1, [visiting |-> {}, visited |-> {}, cycle |-> FALSE]).cycle
    THEN "subtask dependency cycle detected"
    ELSE ""

\* the first subtask of the body that createTask's map rejects, and why
SubtaskError(raws) ==
    LET bad(i) == IF raws[i].agent = "" THEN "subtask agent is required"
                  ELSE IF raws[i].prompt = <<>> THEN "subtask prompt is required"
                  ELSE IF \E j \in 1..(i - 1) : SubtaskId(raws[j], j) = SubtaskId(raws[i], i)
                       THEN "duplicate subtask id"
                  ELSE ""
        bads == {i \in 1..Len(raws) : bad(i) # ""}
    IN  IF bads = {} THEN "" ELSE bad(CHOOSE i \in bads : \A j \in bads : i <= j)

\* signals counts the calls of resolveTerminal; waiters lists, in the order
\* they registered, the subtasks whose pending race holds a reaction on this
\* subtask's terminalPromise; awaited holds the dependencies whose
\* terminalPromise the subtask's own pending race is waiting on; openAtLeave
\* records the dependencies that were not terminal at the moment the subtask
\* left pending
NewSubtask(raw, index) ==
    [ id |-> SubtaskId(raw, index), agent |-> raw.agent, prompt |-> raw.prompt,
      dependsOn |-> raw.dependsOn,
      state |-> "pending", result |-> None, error |-> None,
      signals |-> 0, waiters |-> <<>>, awaited |-> {}, openAtLeave |-> {},
      pc |-> "created", message |-> <<>> ]

\* subtask.resolveTerminal(): the promise is fulfilled and its reactions leave it
resolveTerminal(subtask) == [subtask EXCEPT !.signals = @ + 1, !.waiters = <<>>]

NewSubtasks(raws) == [i \in 1..Len(raws) |-> NewSubtask(raws[i], i)]

\* createTask up to tasks.set: "" and the TaskRecord, or the 400 message
createTaskRecord(body, now) ==
    LET error == IF body.name = "" THEN "task name is required"
                 ELSE IF body.subtasks = <<>> THEN "task subtasks are required"
                 ELSE IF SubtaskError(body.subtasks) # "" THEN SubtaskError(body.subtasks)
                 ELSE validateSubtaskGraph(NewSubtasks(body.subtasks))
    IN  [ error |-> error,
          task |-> [ name |-> body.name, state |-> "running",
                     subtasks |-> NewSubtasks(body.subtasks),
                     updatedAt |-> now, cancelRequested |-> FALSE,
                     stored |-> TRUE, runTaskDone |-> FALSE ] ]

refreshTaskState_ErrorFirst(task, now) ==
    LET states == {task.subtasks[i].state : i \in 1..Len(task.subtasks)}
        state == IF "error" \in states THEN "error"
                 ELSE IF states \cap {"pending", "running"} # {} THEN "running"
                 ELSE IF task.subtasks # <<>> /\ states = {"done"} THEN "done"
                 ELSE IF task.subtasks # <<>> /\ states = {"cancelled"} THEN "cancelled"
                 ELSE "running"
    IN  IF task.state = "cancelled"
        THEN [task EXCEPT !.updatedAt = now]
        ELSE [task EXCEPT !.state = state, !.updatedAt = now]

refreshTaskState(task, now) ==
    LET states == {task.subtasks[i].state : i \in 1..Len(task.subtasks)}
        state == IF states \cap {"pending", "running"} # {} THEN "running"
                 ELSE IF task.subtasks # <<>> /\ states = {"done"} THEN "done"
                 ELSE IF "error" \in states /\ states \subseteq {"done", "error", "cancelled"}
                      THEN "error"
                 ELSE IF task.subtasks # <<>> /\ states = {"cancelled"} THEN "cancelled"
                 ELSE "running"
    IN  IF task.state = "cancelled"
        THEN [task EXCEPT !.updatedAt = now]
        ELSE [task EXCEPT !.state = state, !.updatedAt = now]

cleanupCompletedTasks_AnyState(ts, now) ==
    LET expired(t) == ts[t].stored /\ ts[t].updatedAt <= now - TASK_TTL_MS
        remaining == {t \in 1..Len(ts) :
                         ts[t].stored /\ isTaskTerminal(ts[t].state) /\ ~expired(t)}
        older(t) == {u \in remaining :
                        \/ ts[u].updatedAt < ts[t].updatedAt
                        \/ ts[u].updatedAt = ts[t].updatedAt /\ u < t}
        overflow == Cardinality(remaining) - MAX_COMPLETED_TASKS
    IN  [t \in 1..Len(ts) |->
            IF expired(t) \/ (t \in remaining /\ Cardinality(older(t)) < overflow)
            THEN [ts[t] EXCEPT !.stored = FALSE]
            ELSE ts[t]]

cleanupCompletedTasks_StrictlyOlder(ts, now) ==
    LET expired(t) == /\ ts[t].stored
                      /\ isTaskTerminal(ts[t].state)
                      /\ ts[t].updatedAt < now - TASK_TTL_MS
        remaining == {t \in 1..Len(ts) :
                         ts[t].stored /\ isTaskTerminal(ts[t].state) /\ ~expired(t)}
        older(t) == {u \in remaining :
                        \/ ts[u].updatedAt < ts[t].updatedAt
                        \/ ts[u].updatedAt = ts[t].updatedAt /\ u < t}
        overflow == Cardinality(remaining) - MAX_COMPLETED_TASKS
    IN  [t \in 1..Len(ts) |->
            IF expired(t) \/ (t \in remaining /\ Cardinality(older(t)) < overflow)
            THEN [ts[t] EXCEPT !.stored = FALSE]
            ELSE ts[t]]

\* cleanupCompletedTasks: terminal tasks past the TTL leave the map, then the
\* oldest terminal tasks beyond MAX_COMPLETED_TASKS (sort is stable: ties leave
\* in insertion order)
cleanupCompletedTasks(ts, now) ==
    LET expired(t) == /\ ts[t].stored
                      /\ isTaskTerminal(ts[t].state)
                      /\ ts[t].updatedAt <= now - TASK_TTL_MS
        remaining == {t \in 1..Len(ts) :
                         ts[t].stored /\ isTaskTerminal(ts[t].state) /\ ~expired(t)}
        older(t) == {u \in remaining :
                        \/ ts[u].updatedAt < ts[t].updatedAt
                        \/ ts[u].updatedAt = ts[t].updatedAt /\ u < t}
        overflow == Cardinality(remaining) - MAX_COMPLETED_TASKS
    IN  [t \in 1..Len(ts) |->
            IF expired(t) \/ (t \in remaining /\ Cardinality(older(t)) < overflow)
            THEN [ts[t] EXCEPT !.stored = FALSE]
            ELSE ts[t]]

\* What the steps of a task read and write: the records, the asks, the chunk
\* subscribers and the tasks.  A step runs its handler and then every promise
\* continuation the handler made ready, before any other event is taken.
\* jobs is the microtask queue of the step, first in first out; it is empty
\* when the step ends.
World(rs, as, subs, ts) ==
    [records |-> rs, asks |-> as, subs |-> subs, tasks |-> ts, jobs |-> <<>>]

\* the jobs: the reaction Promise.race put on the terminalPromise of
\* dependency d for waiter i, the reaction it put on i's abortPromise, the
\* continuation of i behind its await of the race, and the continuation of i
\* in its catch block behind its await of a rejected askAgent
Job(kind, t, d, i) == [kind |-> kind, t |-> t, d |-> d, i |-> i]

\* the reactions on the terminalPromise of subtask d, in registration order
terminalReactions(task, t, d) ==
    [k \in 1..Len(task.subtasks[d].waiters) |->
        Job("reaction", t, d, task.subtasks[d].waiters[k])]

\* subtask i of task t takes the terminal record new and calls
\* resolveTerminal: the reactions on its terminalPromise are queued
Resolved(w, t, i, new) ==
    [w EXCEPT !.tasks[t].subtasks[i] = resolveTerminal(new),
              !.jobs = @ \o terminalReactions(w.tasks[t], t, i)]

\* String.replace in renderSubtaskPrompt: the text of the prompt, each placeholder replaced by
\* the result of the first subtask of that id, by nothing when there is no such
\* subtask or it has no result
RECURSIVE replaceResults(_, _)
replaceResults(task, prompt) ==
    IF prompt = <<>> THEN <<>>
    ELSE LET piece == Head(prompt)
             dependency == findTaskSubtask(task.subtasks, piece.ref)
             text == IF piece.ref = "" THEN << piece.word >>
                     ELSE IF dependency = 0 \/ task.subtasks[dependency].result = None THEN <<>>
                     ELSE task.subtasks[dependency].result[1]
         IN  text \o replaceResults(task, Tail(prompt))

renderSubtaskPrompt_KeepPlaceholders(task, subtask) ==
    [k \in 1..Len(subtask.prompt) |->
        IF subtask.prompt[k].ref = "" THEN subtask.prompt[k].word ELSE subtask.prompt[k].ref]

renderSubtaskPrompt(task, subtask) == replaceResults(task, subtask.prompt)

Marker(t, subtask) == Some([taskId |-> t, subtaskId |-> subtask.id])

AgentNotFound == << "Agent", "not", "found" >>
AgentBusy == << "Agent", "is", "busy" >>

Unresolved_None(task, i) == {}

\* runSubtask's unresolved: the dependencies of subtask i that are not terminal
Unresolved(task, i) ==
    {d \in {findTaskSubtask(task.subtasks, task.subtasks[i].dependsOn[k]) :
                k \in 1..Len(task.subtasks[i].dependsOn)} \ {0} :
        ~isSubtaskTerminal(task.subtasks[d].state)}

\* runSubtask from `subtask.state = "running"` to its await of askAgent, whose
\* synchronous part has run: a prompt is sent, or the promise is already rejected
runSubtaskAsk(w, registry, t, i, now) ==
    LET subtask == w.tasks[t].subtasks[i]
        r == registry[subtask.agent]
        started == [w.tasks EXCEPT ![t].subtasks[i].state = "running",
                                   ![t].subtasks[i].openAtLeave = Unresolved(w.tasks[t], i),
                                   ![t].updatedAt = now]
    IN  IF r = 0
        THEN [w EXCEPT !.tasks = [started EXCEPT ![t].subtasks[i].pc = "rejected",
                                                 ![t].subtasks[i].message = AgentNotFound],
                       !.jobs = Append(@, Job("catch", t, 0, i))]
        ELSE LET e == askAgentEntry(w.records[r], Marker(t, subtask), now) IN
             IF ~e.accepted
             THEN [w EXCEPT !.records[r] = e.record,
                            !.tasks = [started EXCEPT ![t].subtasks[i].pc = "rejected",
                                                      ![t].subtasks[i].message = AgentBusy],
                            !.jobs = Append(@, Job("catch", t, 0, i))]
             ELSE [w EXCEPT !.records[r] = e.record,
                            !.asks = Append(@, NewAsk(r, Marker(t, subtask), FALSE,
                                                    renderSubtaskPrompt(w.tasks[t], subtask))),
                            !.tasks = [started EXCEPT ![t].subtasks[i].pc = "asking"]]

\* Promise.race in runSubtask's loop: subtask i puts a reaction on the
\* terminalPromise of each unresolved dependency, behind the reactions already
\* there; the reaction of an earlier race of i stays behind without effect
\* (its race is settled) and is left out
race(task, i) ==
    [task EXCEPT !.subtasks =
        [d \in 1..Len(task.subtasks) |->
            IF d = i
            THEN [task.subtasks[d] EXCEPT !.pc = "waiting",
                                          !.awaited = Unresolved(task, i)]
            ELSE IF d \in Unresolved(task, i)
            THEN [task.subtasks[d] EXCEPT
                     !.waiters = Append(SelectSeq(@, LAMBDA x : x # i), i)]
            ELSE task.subtasks[d]]]

\* runSubtask from the top of its while loop to its next await or its return
runSubtaskLoop(w0, registry, t, i, now) ==
    LET w == [w0 EXCEPT !.tasks[t].subtasks[i].awaited = {}]
        task == w.tasks[t]
    IN
    IF task.subtasks[i].state # "pending"
    THEN [w EXCEPT !.tasks[t].subtasks[i].pc = "finished"]
    ELSE IF task.cancelRequested \/ task.state = "cancelled"
    THEN LET r == Resolved(w, t, i,
                           [task.subtasks[i] EXCEPT !.state = "cancelled",
                                                    !.openAtLeave = Unresolved(task, i),
                                                    !.pc = "finished"])
         IN  [r EXCEPT !.tasks[t] = refreshTaskState(@, now)]
    ELSE IF Unresolved(task, i) = {}
    THEN runSubtaskAsk(w, registry, t, i, now)
    ELSE [w EXCEPT !.tasks[t] = race(task, i)]

\* the tail of runSubtask's try and catch blocks once the subtask has a state
runSubtaskSettled(w, t, i, now) ==
    LET refreshed == [w.tasks EXCEPT ![t] = refreshTaskState(@, now)] IN
    [w EXCEPT !.tasks = IF isTaskTerminal(refreshed[t].state)
                        THEN cleanupCompletedTasks(refreshed, now)
                        ELSE refreshed]

runSubtaskDone_Unguarded(w, t, i, text, now) ==
    runSubtaskSettled(
        Resolved(w, t, i, [w.tasks[t].subtasks[i] EXCEPT
                              !.state = "done", !.result = Some(text),
                              !.error = None, !.pc = "finished"]), t, i, now)

\* runSubtask behind `await askAgent`: the ask returned text
runSubtaskDone(w, t, i, text, now) ==
    IF w.tasks[t].subtasks[i].state # "running"
    THEN [w EXCEPT !.tasks[t].subtasks[i].pc = "finished"]
    ELSE runSubtaskSettled(
             Resolved(w, t, i, [w.tasks[t].subtasks[i] EXCEPT
                                   !.state = "done", !.result = Some(text),
                                   !.error = None, !.pc = "finished"]), t, i, now)

runSubtaskFailed_AbortSiblings(w, t, i, message, now) ==
    IF w.tasks[t].subtasks[i].state # "running"
    THEN [w EXCEPT !.tasks[t].subtasks[i].pc = "finished"]
    ELSE runSubtaskSettled(
             [w EXCEPT !.tasks[t].subtasks =
                 [j \in 1..Len(w.tasks[t].subtasks) |->
                     IF j = i
                     THEN resolveTerminal(
                              [w.tasks[t].subtasks[j] EXCEPT !.state = "error",
                                                             !.error = Some(message),
                                                             !.pc = "finished"])
                     ELSE IF w.tasks[t].subtasks[j].state = "pending"
                     THEN resolveTerminal(
                              [w.tasks[t].subtasks[j] EXCEPT !.state = "cancelled",
                                                             !.pc = "finished"])
                     ELSE w.tasks[t].subtasks[j]],
                       !.jobs = @ \o terminalReactions(w.tasks[t], t, i)], t, i, now)

\* a catch block that swallows the error and leaves the subtask running
runSubtaskFailed_Swallow(w, t, i, message, now) ==
    [w EXCEPT !.tasks[t].subtasks[i].pc = "finished"]

\* runSubtask's catch: the ask threw an error carrying message
runSubtaskFailed(w, t, i, message, now) ==
    IF w.tasks[t].subtasks[i].state # "running"
    THEN [w EXCEPT !.tasks[t].subtasks[i].pc = "finished"]
    ELSE runSubtaskSettled(
             Resolved(w, t, i, [w.tasks[t].subtasks[i] EXCEPT
                                   !.state = "error", !.error = Some(message),
                                   !.pc = "finished"]), t, i, now)

\* runTask behind Promise.allSettled
runTaskTail(w, t, now) ==
    LET task == w.tasks[t]
        marked == [w.tasks EXCEPT ![t].runTaskDone = TRUE]
    IN  IF task.state = "cancelled"
        THEN [w EXCEPT !.tasks = cleanupCompletedTasks(
                                     [marked EXCEPT ![t].updatedAt = now], now)]
        ELSE LET refreshed == [marked EXCEPT ![t] = refreshTaskState(@, now)] IN
             [w EXCEPT !.tasks = IF isTaskTerminal(refreshed[t].state)
                                 THEN cleanupCompletedTasks(refreshed, now)
                                 ELSE refreshed]

\* one job of the microtask queue runs.  A reaction on a terminalPromise or
\* on the abortPromise settles the race of its waiter, if the waiter is still
\* waiting on it, and queues the waiter's continuation; a reaction that finds
\* the race settled does nothing.
runJob(w, registry, job, now) ==
    LET subtask == w.tasks[job.t].subtasks[job.i] IN
    IF job.kind = "reaction"
    THEN IF subtask.pc = "waiting" /\ job.d \in subtask.awaited
         THEN [w EXCEPT !.tasks[job.t].subtasks[job.i].pc = "woken",
                        !.jobs = Append(@, Job("resume", job.t, 0, job.i))]
         ELSE w
    ELSE IF job.kind = "abort"
    THEN IF subtask.pc = "waiting"
         THEN [w EXCEPT !.tasks[job.t].subtasks[job.i].pc = "woken",
                        !.jobs = Append(@, Job("resume", job.t, 0, job.i))]
         ELSE w
    ELSE IF job.kind = "resume"
    THEN runSubtaskLoop(w, registry, job.t, job.i, now)
    ELSE runSubtaskFailed(w, job.t, job.i, subtask.message, now)

\* the microtask queue runs until it is empty, each job in its turn and the
\* jobs a job queues behind those already there; a task whose runSubtask
\* calls have all returned then ends its runTask
RECURSIVE Settle(_, _, _)
Settle(w, registry, now) ==
    LET ended == {t \in 1..Len(w.tasks) :
                     /\ ~w.tasks[t].runTaskDone
                     /\ \A i \in 1..Len(w.tasks[t].subtasks) :
                           w.tasks[t].subtasks[i].pc = "finished"}
    IN  IF w.jobs # <<>>
        THEN Settle(runJob([w EXCEPT !.jobs = Tail(@)], registry, Head(w.jobs), now),
                    registry, now)
        ELSE IF ended # {}
        THEN Settle(runTaskTail(w, CHOOSE t \in ended : \A u \in ended : t <= u, now),
                    registry, now)
        ELSE w

\* runTask: every runSubtask runs to its first await, in subtask order
RECURSIVE runTask(_, _, _, _, _)
runTask(w, registry, t, i, now) ==
    IF i > Len(w.tasks[t].subtasks) THEN w
    ELSE runTask(runSubtaskLoop(w, registry, t, i, now), registry, t, i + 1, now)

\* askAgent(name, prompt, onChunk, activeTask) up to its await
AskBegin(name, onChunk, activeTask) ==
    LET r == agents[name] IN
    IF r = 0
    THEN /\ response' = Resp("ask", 500, "Agent not found", 0)
         /\ UNCHANGED << records, asks, chunkSubscribers >>
    ELSE LET e == askAgentEntry(records[r], activeTask, clock) IN
         IF ~e.accepted
         THEN /\ response' = Resp("ask", 500, "Agent is busy", 0)
              /\ records' = [records EXCEPT ![r] = e.record]
              /\ UNCHANGED << asks, chunkSubscribers >>
         ELSE /\ Len(asks) < MaxAsks
              /\ records' = [records EXCEPT ![r] = e.record]
              /\ asks' = Append(asks, NewAsk(r, activeTask, onChunk, << "p" >>))
              /\ chunkSubscribers' = IF onChunk
                                     THEN subscribeChunks(chunkSubscribers, name, Len(asks) + 1)
                                     ELSE chunkSubscribers
              /\ response' = NoResponse

\* POST /agents/:name/ask, with (?stream=true) or without a chunk subscriber
AskDirect(name, onChunk) ==
    /\ AskBegin(name, onChunk, None)
    /\ UNCHANGED << agents, children, starting, nextPermissionRequestId, continuations,
                    cancels, clock, taskVars, resolving >>

\* what a returning ask hands to its caller
AskReturn(a, status, error, record, message) ==
    [ op |-> "ask", status |-> status, error |-> error, n |-> a, message |-> message,
      text |-> IF status = 200 THEN record.lastText ELSE <<>>,
      stopReason |-> record.stopReason,
      chunks |-> asks[a].chunks ]

\* the step's world becomes the next state
Commit(w) ==
    /\ Len(w.asks) <= MaxTaskAsks
    /\ records' = w.records
    /\ asks' = w.asks
    /\ chunkSubscribers' = w.subs
    /\ tasks' = w.tasks

\* askAgent has returned (ok, with text) or thrown (with message) in world w:
\* an ask made by runSubtask resumes it, and what that makes ready runs
AskReturned(w, a, ok, text, message) ==
    IF asks[a].activeTask = None THEN w
    ELSE LET t == asks[a].activeTask[1].taskId
             i == findTaskSubtask(w.tasks[t].subtasks, asks[a].activeTask[1].subtaskId)
         IN  Settle(IF ok THEN runSubtaskDone(w, t, i, text, clock)
                          ELSE runSubtaskFailed(w, t, i, message, clock),
                    agents, clock)

\* the HTTP answer of a returning ask; runSubtask's asks answer nobody
AskResponse(a, status, error, record, message) ==
    IF asks[a].activeTask = None THEN AskReturn(a, status, error, record, message)
    ELSE NoResponse

\* the agent answers the prompt of ask a
PromptResolve(a, stopReason) ==
    /\ a \in 1..Len(asks)
    /\ asks[a].prompt = "outstanding"
    /\ LET r == asks[a].rec IN
       IF asks[a].pc = "awaiting"
       THEN LET done == askAgentResolved(records[r], stopReason, clock)
                w == World([records EXCEPT ![r] = askAgentFinally(done, asks[a].activeTask)],
                           [asks EXCEPT ![a] = [@ EXCEPT !.pc = "returned",
                                                         !.prompt = "resolved",
                                                         !.chunks = <<>>]],
                           unsubscribe(chunkSubscribers, records[r].name, a),
                           tasks)
            IN  /\ Commit(AskReturned(w, a, TRUE, done.lastText, <<>>))
                /\ response' = AskResponse(a, 200, "", done, <<>>)
       ELSE /\ asks' = [asks EXCEPT ![a].prompt = "resolved"]
            /\ response' = NoResponse
            /\ UNCHANGED << records, chunkSubscribers, tasks >>
    /\ UNCHANGED << agents, children, starting, nextPermissionRequestId, continuations,
                    cancels, clock, taskCancels, resolving >>

\* the prompt of ask a rejects with an error carrying message
PromptReject(a, message) ==
    /\ a \in 1..Len(asks)
    /\ asks[a].prompt = "outstanding"
    /\ LET r == asks[a].rec IN
       IF asks[a].pc = "awaiting"
       THEN LET done == askAgentRejected(records[r], message, clock)
                w == World([records EXCEPT ![r] = askAgentFinally(done, asks[a].activeTask)],
                           [asks EXCEPT ![a] = [@ EXCEPT !.pc = "returned",
                                                         !.prompt = "rejected",
                                                         !.chunks = <<>>]],
                           unsubscribe(chunkSubscribers, records[r].name, a),
                           tasks)
            IN  /\ Commit(AskReturned(w, a, FALSE, <<>>, message))
                /\ response' = AskResponse(a, 500, "prompt error", done, message)
       ELSE /\ asks' = [asks EXCEPT ![a].prompt = "rejected"]
            /\ response' = NoResponse
            /\ UNCHANGED << records, chunkSubscribers, tasks >>
    /\ UNCHANGED << agents, children, starting, nextPermissionRequestId, continuations,
                    cancels, clock, taskCancels, resolving >>

\* the timer of ask a fires before its prompt settled
AskTimeoutWorld(a) ==
    LET r == asks[a].rec
        done == askAgentTimedOut(records[r], clock)
        w == World([records EXCEPT ![r] = askAgentFinally(done, asks[a].activeTask)],
                   [asks EXCEPT ![a] = [@ EXCEPT !.pc = "returned", !.chunks = <<>>]],
                   unsubscribe(chunkSubscribers, records[r].name, a),
                   tasks)
    IN  AskReturned(w, a, FALSE, <<>>, TimeoutMessage)

AskTimeout(a) ==
    /\ a \in 1..Len(asks)
    /\ asks[a].pc = "awaiting"
    /\ Commit(AskTimeoutWorld(a))
    /\ response' = AskResponse(a, 408, "ask timeout",
                               askAgentTimedOut(records[asks[a].rec], clock),
                               TimeoutMessage)
    /\ UNCHANGED << agents, children, starting, nextPermissionRequestId, continuations,
                    cancels, clock, taskCancels, resolving >>

\* ------------------------------------------------------------ task handlers
\* POST /tasks with the body already read: createTask, the 201 answer, and then
\* what runTask made ready
CreateTask(body) ==
    /\ LET c == createTaskRecord(body, clock) IN
       IF c.error # ""
       THEN /\ response' = Resp("createTask", 400, c.error, 0)
            /\ UNCHANGED << records, asks, chunkSubscribers, tasks >>
       ELSE /\ Len(tasks) < MaxTasks
            /\ Commit(Settle(runTask(World(records, asks, chunkSubscribers,
                                           Append(tasks, c.task)),
                                     agents, Len(tasks) + 1, 1, clock),
                             agents, clock))
            /\ response' = Resp("createTask", 201, "", Len(tasks) + 1)
    /\ UNCHANGED << agents, children, starting, nextPermissionRequestId, continuations,
                    cancels, clock, taskCancels, resolving >>

\* cancelTask's loop marks the subtasks in their order: when it comes to
\* subtask i, the dependencies of i listed before i are marked already and
\* those listed behind it are not
OpenInLoop(task, i) == {d \in Unresolved(task, i) : d > i}

\* the jobs cancelTask queues: abort() settles the abortPromise of every
\* runSubtask in subtask order, then each subtask the loop marks calls
\* resolveTerminal
RECURSIVE cancelReactions(_, _, _)
cancelReactions(task, t, i) ==
    IF i > Len(task.subtasks) THEN <<>>
    ELSE (IF task.subtasks[i].state \in {"pending", "running"}
          THEN terminalReactions(task, t, i) ELSE <<>>)
         \o cancelReactions(task, t, i + 1)

cancelTaskJobs(task, t) ==
    [i \in 1..Len(task.subtasks) |-> Job("abort", t, 0, i)] \o cancelReactions(task, t, 1)

\* a cancelTask that marks the subtasks without resolving their signals
cancelTaskMark_NoSignal(task, now) ==
    [task EXCEPT !.cancelRequested = TRUE,
                 !.state = "cancelled",
                 !.updatedAt = now,
                 !.subtasks = [i \in 1..Len(task.subtasks) |->
                                  IF task.subtasks[i].state \in {"pending", "running"}
                                  THEN [task.subtasks[i] EXCEPT !.state = "cancelled"]
                                  ELSE task.subtasks[i]]]

\* cancelTask before its loop over cancelAgents: the flags, and every pending
\* or running subtask cancelled and its terminal signal resolved
cancelTaskMark(task, now) ==
    [task EXCEPT !.cancelRequested = TRUE,
                 !.state = "cancelled",
                 !.updatedAt = now,
                 !.subtasks = [i \in 1..Len(task.subtasks) |->
                                  IF task.subtasks[i].state = "running"
                                  THEN resolveTerminal(
                                           [task.subtasks[i] EXCEPT !.state = "cancelled"])
                                  ELSE IF task.subtasks[i].state = "pending"
                                  THEN resolveTerminal(
                                           [task.subtasks[i] EXCEPT
                                               !.state = "cancelled",
                                               !.openAtLeave = OpenInLoop(task, i)])
                                  ELSE task.subtasks[i]]]

cancelledSubtasks_RunningOnly(task) ==
    Cardinality({i \in 1..Len(task.subtasks) : task.subtasks[i].state = "running"})

\* cancelTask's count: the subtasks its loop marks
cancelledSubtasks(task) ==
    Cardinality({i \in 1..Len(task.subtasks) :
                    task.subtasks[i].state \in {"pending", "running"}})

\* cancelAgents: the agents of the running subtasks from subtask i on, each
\* once, in the order the subtasks name them first
RECURSIVE cancelAgents(_, _, _)
cancelAgents(task, i, seen) ==
    IF i > Len(task.subtasks) THEN <<>>
    ELSE LET subtask == task.subtasks[i] IN
         IF subtask.state = "running" /\ subtask.agent \notin seen
         THEN << subtask.agent >> \o cancelAgents(task, i + 1, seen \cup {subtask.agent})
         ELSE cancelAgents(task, i + 1, seen)

\* cancelTask's loop from entry k of its list to its next await: the first
\* entry whose agent is registered and carries a marker of task t
RECURSIVE NextCancelAgent(_, _, _, _, _)
NextCancelAgent(list, k, rs, registry, t) ==
    IF k > Len(list) THEN k
    ELSE LET r == registry[list[k]] IN
         IF r # 0 /\ rs[r].activeTask # None /\ rs[r].activeTask[1].taskId = t
         THEN k
         ELSE NextCancelAgent(list, k + 1, rs, registry, t)

\* the record behind cancelTask's await of connection.cancel
cancelTaskEffect(record, conts, now) ==
    LET c == cancelAllPendingPermissions(record, conts, now) IN
    [ record |-> IF c.count > 0 \/ c.record.state = "working"
                 THEN [c.record EXCEPT !.state = "idle", !.updatedAt = now]
                 ELSE c.record,
      conts |-> c.conts,
      count |-> c.count ]

\* DELETE /tasks/:id up to the first await of cancelTask, or to its answer
\* when cancelTask awaits nothing and runs its eviction pass at once; the
\* continuations abort() and resolveTerminal made ready run behind it
TaskCancelBegin(t) ==
    /\ t \in 1..Len(tasks)
    /\ IF ~tasks[t].stored
       THEN /\ response' = Resp("cancelTask", 404, "not_found", 0)
            /\ UNCHANGED << records, asks, chunkSubscribers, tasks, taskCancels >>
       ELSE LET list == cancelAgents(tasks[t], 1, {})
                k == NextCancelAgent(list, 1, records, agents, t)
                marked == [tasks EXCEPT ![t] = cancelTaskMark(@, clock)]
                w == Settle([World(records, asks, chunkSubscribers,
                                   IF k > Len(list)
                                   THEN cleanupCompletedTasks(marked, clock)
                                   ELSE marked)
                                EXCEPT !.jobs = cancelTaskJobs(tasks[t], t)],
                            agents, clock)
            IN  /\ Len(taskCancels) < MaxTaskCancels
                /\ IF k > Len(list)
                   THEN /\ Commit(w)
                        /\ response' = Resp("cancelTask", 200, "", cancelledSubtasks(tasks[t]))
                        /\ UNCHANGED << taskCancels >>
                   ELSE /\ Commit(w)
                        /\ taskCancels' = Append(taskCancels,
                               [ task |-> t, list |-> list, k |-> k,
                                 rec |-> agents[list[k]],
                                 count |-> cancelledSubtasks(tasks[t]) ])
                        /\ response' = NoResponse
    /\ UNCHANGED << agents, children, starting, nextPermissionRequestId, continuations,
                    cancels, clock, resolving >>

\* cancelTask behind an await of connection.cancel, which returned (sent) or
\* threw, up to its next await or to the answer of DELETE /tasks/:id
TaskCancelStep(c, sent) ==
    /\ c \in 1..Len(taskCancels)
    /\ sent \/ children[taskCancels[c].rec] = "exited"
    /\ LET tc == taskCancels[c]
           e == IF sent THEN cancelTaskEffect(records[tc.rec], continuations, clock)
                ELSE [record |-> records[tc.rec], conts |-> continuations, count |-> 0]
           rs == [records EXCEPT ![tc.rec] = e.record]
           k == NextCancelAgent(tc.list, tc.k + 1, rs, agents, tc.task)
       IN  /\ records' = rs
           /\ continuations' = e.conts
           /\ IF k > Len(tc.list)
              THEN /\ tasks' = cleanupCompletedTasks(tasks, clock)
                   /\ taskCancels' = Without(taskCancels, c)
                   /\ response' = Resp("cancelTask", 200, "", tc.count)
              ELSE /\ taskCancels' = [taskCancels EXCEPT ![c].k = k,
                                                         ![c].rec = agents[tc.list[k]]]
                   /\ response' = NoResponse
                   /\ UNCHANGED tasks
    /\ UNCHANGED << agents, children, starting, asks, chunkSubscribers,
                    nextPermissionRequestId, cancels, clock, resolving >>

\* the callback of main's setInterval: an eviction pass every 60 seconds
cleanupInterval ==
    /\ tasks' = cleanupCompletedTasks(tasks, clock)
    /\ response' = Resp("cleanupInterval", 0, "",
                        Cardinality({t \in 1..Len(tasks) : tasks[t].stored})
                            - Cardinality({t \in 1..Len(tasks) : tasks'[t].stored}))
    /\ UNCHANGED << agents, records, children, starting, asks, chunkSubscribers,
                    nextPermissionRequestId, continuations, cancels, clock, taskCancels,
                    resolving >>

\* the wall clock reaches now, a time of EvictionTimes
TimePasses(now) ==
    /\ now > clock
    /\ clock' = now
    /\ response' = NoResponse
    /\ UNCHANGED << agents, records, children, starting, asks, chunkSubscribers,
                    nextPermissionRequestId, continuations, cancels, taskVars, resolving >>

\* ------------------------------------------------- inbound notifications
\* publishChunk(name, text): every callback subscribed under name receives text
publishChunk(as, subs, name, text) ==
    [a \in 1..Len(as) |-> IF a \in subs[name]
                          THEN [as[a] EXCEPT !.chunks = Append(@, text)]
                          ELSE as[a]]

\* BridgeClient.sessionUpdate of the child of record r (getRecord is the closure
\* of startAgent: it yields r's record whatever the registry holds)
SessionUpdate(r, kind, text) ==
    /\ r \in 1..Len(records)
    /\ IF kind = "agent_message_chunk" /\ text # ""
       THEN /\ Len(records[r].currentText) < MaxText
            /\ records' = [records EXCEPT ![r] =
                             [@ EXCEPT !.updatedAt = clock,
                                       !.currentText = Append(records[r].currentText, text),
                                       !.lastText = Append(records[r].currentText, text)]]
            /\ asks' = publishChunk(asks, chunkSubscribers, records[r].name, text)
       ELSE IF kind = "tool_call"
       THEN /\ records' = [records EXCEPT ![r] = [@ EXCEPT !.updatedAt = clock,
                                                           !.state = "working"]]
            /\ UNCHANGED asks
       ELSE /\ records' = [records EXCEPT ![r].updatedAt = clock]
            /\ UNCHANGED asks
    /\ response' = NoResponse
    /\ UNCHANGED << agents, children, starting, chunkSubscribers, nextPermissionRequestId,
                    continuations, cancels, clock, taskVars, resolving >>

\* the record after BridgeClient.requestPermission parked a request on it
parkPermission(record, requestId, options, now) ==
    [record EXCEPT !.updatedAt = now,
                   !.state = "working",
                   !.pendingPermissions =
                       Append(@, [requestId |-> requestId, options |-> options])]

\* BridgeClient.requestPermission called by the child of record r
RequestPermission(r, options) ==
    /\ r \in 1..Len(records)
    /\ nextPermissionRequestId <= MaxRequests
    /\ records' = [records EXCEPT ![r] =
                     parkPermission(@, nextPermissionRequestId, options, clock)]
    /\ continuations' = Append(continuations,
                               [rec |-> r, options |-> options, outcomes |-> <<>>])
    /\ nextPermissionRequestId' = nextPermissionRequestId + 1
    /\ response' = NoResponse
    /\ UNCHANGED << agents, children, starting, asks, chunkSubscribers, cancels, clock, taskVars, resolving >>

\* -------------------------------------------------------- HTTP resolution
\* POST /agents/:name/approve and /deny up to the await of the body: the lookup
ApproveDenyBegin(name, decision) ==
    LET r == agents[name] IN
    /\ IF r = 0
       THEN /\ response' = Resp(decision, 404, "not_found", 0)
            /\ UNCHANGED resolving
       ELSE /\ Len(resolving) < MaxResolving
            /\ resolving' = Append(resolving, [rec |-> r])
            /\ response' = NoResponse
    /\ UNCHANGED << agents, records, children, starting, asks, chunkSubscribers,
                    nextPermissionRequestId, continuations, cancels, clock,
                    taskVars >>

\* the body {optionId?} has been read: the head of the queue of the record that
\* was looked up is resolved, or the handler answers 409.  The decision is the
\* request's own (its URL), which nothing between the two steps can change.
ApproveDenyFinish(i, decision, explicitOptionId) ==
    /\ i \in 1..Len(resolving)
    /\ LET r == resolving[i].rec
           res == resolvePendingPermission(records[r], continuations, decision,
                                           explicitOptionId, clock) IN
       /\ records' = [records EXCEPT ![r] = res.record]
       /\ continuations' = res.conts
       /\ response' = IF res.pending = None
                      THEN Resp(decision, 409, "no_pending_permissions", 0)
                      ELSE Resp(decision, 200, "", res.pending[1].requestId)
    /\ resolving' = Without(resolving, i)
    /\ UNCHANGED << agents, children, starting, asks, chunkSubscribers,
                    nextPermissionRequestId, cancels, clock, taskVars >>

\* POST /agents/:name/cancel up to its await: the lookup and the ACP cancel
CancelBegin(name) ==
    LET r == agents[name] IN
    /\ IF r = 0
       THEN /\ response' = Resp("cancel", 404, "not_found", 0)
            /\ UNCHANGED << cancels >>
       ELSE /\ Len(cancels) < MaxCancels
            /\ cancels' = Append(cancels, [rec |-> r])
            /\ response' = NoResponse
    /\ UNCHANGED << agents, records, children, starting, asks, chunkSubscribers,
                    nextPermissionRequestId, continuations, clock, taskVars, resolving >>

\* the record after the cancel handler's body behind the await
cancelHandlerEffect(record, conts, now) ==
    LET c == cancelAllPendingPermissions(record, conts, now) IN
    [ record |-> [c.record EXCEPT !.updatedAt = now,
                                  !.state = IF @ = "working" THEN "idle" ELSE @],
      conts |-> c.conts,
      count |-> c.count ]

\* connection.cancel returned: drain the queue of the captured record
CancelFinish(c) ==
    /\ c \in 1..Len(cancels)
    /\ LET r == cancels[c].rec
           e == cancelHandlerEffect(records[r], continuations, clock) IN
       /\ records' = [records EXCEPT ![r] = e.record]
       /\ continuations' = e.conts
       /\ response' = Resp("cancel", 200, "", e.count)
    /\ cancels' = Without(cancels, c)
    /\ UNCHANGED << agents, children, starting, asks, chunkSubscribers,
                    nextPermissionRequestId, clock, taskVars, resolving >>

\* connection.cancel threw (the child's pipe is gone): the handler answers 500
CancelFail(c) ==
    /\ c \in 1..Len(cancels)
    /\ children[cancels[c].rec] = "exited"
    /\ cancels' = Without(cancels, c)
    /\ response' = Resp("cancel", 500, "write failed", 0)
    /\ UNCHANGED << agents, records, children, starting, asks, chunkSubscribers,
                    nextPermissionRequestId, continuations, clock, taskVars, resolving >>

\* ------------------------------------------------------------ specifications
\* The state after one successful startAgent("a1").
InitOne ==
    /\ agents = [n \in Names |-> IF n = "a1" THEN 1 ELSE 0]
    /\ records = << NewRecord("a1", TRUE, 0, <<>>) >>
    /\ children = << "running" >>
    /\ starting = [n \in Names |-> NoStart]
    /\ asks = <<>>
    /\ chunkSubscribers = [n \in Names |-> {}]
    /\ nextPermissionRequestId = 1
    /\ continuations = <<>>
    /\ resolving = <<>>
    /\ cancels = <<>>
    /\ clock = 0
    /\ response = Resp("start", 201, "", 1)
    /\ tasks = <<>>
    /\ taskCancels = <<>>

\* The permission queue over the agent's whole life: every operation that
\* reads or writes a record's pendingPermissions or the registry.
NextQueue ==
    \/ \E name \in OneName : StopAgent(name)
    \/ \E r \in 1..Len(records) : ChildExit(r)
    \/ \E r \in 1..Len(records), options \in UsualOptions : RequestPermission(r, options)
    \/ \E name \in OneName, decision \in {"approve", "deny"} : ApproveDenyBegin(name, decision)
    \/ \E i \in 1..Len(resolving), decision \in {"approve", "deny"} :
          ApproveDenyFinish(i, decision, None)
    \/ \E name \in OneName : CancelBegin(name)
    \/ \E c \in 1..Len(cancels) : CancelFinish(c)
    \/ \E c \in 1..Len(cancels) : CancelFail(c)

SpecQueue == InitOne /\ [][NextQueue]_vars

\* Option selection and the empty queue: approve and deny with every body,
\* on requests with every option list, as the clock advances.
NextOptions ==
    \/ Tick
    \/ \E r \in 1..Len(records), options \in OptionLists : RequestPermission(r, options)
    \/ \E name \in OneName, decision \in {"approve", "deny"} : ApproveDenyBegin(name, decision)
    \/ \E i \in 1..Len(resolving), decision \in {"approve", "deny"},
          explicitOptionId \in ExplicitIds : ApproveDenyFinish(i, decision, explicitOptionId)

SpecOptions == InitOne /\ [][NextOptions]_vars

\* The ask executor on a live agent: direct asks with and without a chunk
\* subscriber and the asks of a task, against the agent's answers, its
\* notifications and the ask timer.
NextAsk ==
    \/ \E name \in OneName, onChunk \in BOOLEAN : AskDirect(name, onChunk)
    \/ \E body \in OneSubtaskBodies : CreateTask(body)
    \/ \E a \in 1..Len(asks) : PromptResolve(a, Some("end_turn"))
    \/ \E a \in 1..Len(asks) : AskTimeout(a)
    \/ \E r \in 1..Len(records) : SessionUpdate(r, "tool_call", "")
    \/ \E r \in 1..Len(records) : SessionUpdate(r, "agent_message_chunk", "x")
    \/ \E r \in 1..Len(records), options \in UsualOptions : RequestPermission(r, options)

SpecAsk == InitOne /\ [][NextAsk]_vars

\* Every path that resolves a parked permission request, with the asks of a
\* task under way: approve, deny, the agent's cancel, the task's cancel,
\* stopAgent and the child's exit.
NextCancel ==
    \/ \E name \in OneName : StopAgent(name)
    \/ \E r \in 1..Len(records) : ChildExit(r)
    \/ \E body \in OneSubtaskBodies : CreateTask(body)
    \/ \E r \in 1..Len(records), options \in UsualOptions : RequestPermission(r, options)
    \/ \E name \in OneName, decision \in {"approve", "deny"} : ApproveDenyBegin(name, decision)
    \/ \E i \in 1..Len(resolving), decision \in {"approve", "deny"} :
          ApproveDenyFinish(i, decision, None)
    \/ \E name \in OneName : CancelBegin(name)
    \/ \E c \in 1..Len(cancels) : CancelFinish(c)
    \/ \E c \in 1..Len(cancels) : CancelFail(c)
    \/ \E t \in 1..Len(tasks) : TaskCancelBegin(t)
    \/ \E c \in 1..Len(taskCancels), sent \in BOOLEAN : TaskCancelStep(c, sent)

SpecCancel == InitOne /\ [][NextCancel]_vars

\* An agent that keeps to the protocol: it sends session updates and permission
\* requests only inside a prompt turn, and ends a turn (answer or error) only
\* when none of its permission requests is unanswered or when it has exited.
InTurn(r) == \E a \in 1..Len(asks) : asks[a].rec = r /\ asks[a].prompt = "outstanding"

Unanswered(r) ==
    {id \in 1..Len(continuations) :
        continuations[id].rec = r /\ continuations[id].outcomes = <<>>}

TurnToolCall(r) == InTurn(r) /\ SessionUpdate(r, "tool_call", "")

TurnRequestPermission(r, options) == InTurn(r) /\ RequestPermission(r, options)

TurnAnswer(a, stopReason) ==
    /\ a \in 1..Len(asks)
    /\ Unanswered(asks[a].rec) = {}
    /\ PromptResolve(a, stopReason)

TurnError(a, message) ==
    /\ a \in 1..Len(asks)
    /\ Unanswered(asks[a].rec) = {} \/ children[asks[a].rec] = "exited"
    /\ PromptReject(a, message)

NextTurn ==
    \/ \E name \in OneName : StopAgent(name)
    \/ \E r \in 1..Len(records) : ChildExit(r)
    \/ \E name \in OneName : AskDirect(name, FALSE)
    \/ \E a \in 1..Len(asks), stopReason \in StopReasons : TurnAnswer(a, stopReason)
    \/ \E a \in 1..Len(asks), message \in RawErrors : TurnError(a, message)
    \/ \E a \in 1..Len(asks) : AskTimeout(a)
    \/ \E r \in 1..Len(records) : TurnToolCall(r)
    \/ \E r \in 1..Len(records), options \in UsualOptions : TurnRequestPermission(r, options)
    \/ \E name \in OneName, decision \in {"approve", "deny"} : ApproveDenyBegin(name, decision)
    \/ \E i \in 1..Len(resolving), decision \in {"approve", "deny"} :
          ApproveDenyFinish(i, decision, None)
    \/ \E name \in OneName : CancelBegin(name)
    \/ \E c \in 1..Len(cancels) : CancelFinish(c)
    \/ \E c \in 1..Len(cancels) : CancelFail(c)

SpecTurn == InitOne /\ [][NextTurn]_vars

\* The ask executor against every way a prompt ends: the agent's answer, an
\* error, and the ask timer, with text streamed in between.
NextError ==
    \/ \E name \in OneName, onChunk \in BOOLEAN : AskDirect(name, onChunk)
    \/ \E a \in 1..Len(asks), stopReason \in StopReasons : PromptResolve(a, stopReason)
    \/ \E a \in 1..Len(asks), message \in RawErrors : PromptReject(a, message)
    \/ \E a \in 1..Len(asks) : AskTimeout(a)
    \/ \E r \in 1..Len(records) : SessionUpdate(r, "agent_message_chunk", "401")

SpecError == InitOne /\ [][NextError]_vars

\* Streaming asks on a live agent and on a name that is not registered,
\* against the agent's chunks, its answers and errors, the ask timer and
\* POST /agents/:name/cancel.
NextChunks ==
    \/ \E name \in Names, onChunk \in BOOLEAN : AskDirect(name, onChunk)
    \/ \E a \in 1..Len(asks) : PromptResolve(a, Some("end_turn"))
    \/ \E a \in 1..Len(asks) : PromptReject(a, <<"boom">>)
    \/ \E a \in 1..Len(asks) : AskTimeout(a)
    \/ \E r \in 1..Len(records) : SessionUpdate(r, "agent_message_chunk", "x")
    \/ \E name \in OneName : CancelBegin(name)
    \/ \E c \in 1..Len(cancels) : CancelFinish(c)

SpecChunks == InitOne /\ [][NextChunks]_vars

\* POST /tasks while the task map is empty
FirstTask(body) == tasks = <<>> /\ CreateTask(body)

\* The creation of a first task over every dependency graph and its life on a
\* live agent: the agent streams text and answers, the ask times out, the task
\* is deleted.
NextTask ==
    \/ \E body \in GraphBodies \cup ShapedBodies \cup RacingBodies : FirstTask(body)
    \/ \E a \in 1..Len(asks) : PromptResolve(a, Some("end_turn"))
    \/ \E a \in 1..Len(asks) : AskTimeout(a)
    \/ \E r \in 1..Len(records) : SessionUpdate(r, "agent_message_chunk", "x")
    \/ \E t \in 1..Len(tasks) : TaskCancelBegin(t)
    \/ \E c \in 1..Len(taskCancels) : TaskCancelStep(c, TRUE)

SpecTask == InitOne /\ [][NextTask]_vars

\* the timer askAgent armed for a prompt is pending: AskTimeout can happen
TimerArmed ==
    \E a \in 1..Len(asks) :
        asks[a].pc = "awaiting" /\ Len(AskTimeoutWorld(a).asks) <= MaxTaskAsks

\* a pending timer fires
TimerFires == \E a \in 1..Len(asks) : AskTimeout(a)

\* The same with asks that settle: the timer askAgent arms for every prompt
\* fires unless the prompt settled before.  This is weak fairness of
\* TimerFires, with TimerArmed written for ENABLED <<TimerFires>>_vars.
SpecTaskLive ==
    /\ InitOne /\ [][NextTask]_vars
    /\ ([]<>(~TimerArmed) \/ []<><<TimerFires>>_vars)

\* The state after successful startAgent("a1") and startAgent("a2").
InitTwo ==
    /\ agents = [n \in Names |-> IF n = "a1" THEN 1 ELSE 2]
    /\ records = << NewRecord("a1", TRUE, 0, <<>>), NewRecord("a2", TRUE, 0, <<>>) >>
    /\ children = << "running", "running" >>
    /\ starting = [n \in Names |-> NoStart]
    /\ asks = <<>>
    /\ chunkSubscribers = [n \in Names |-> {}]
    /\ nextPermissionRequestId = 1
    /\ continuations = <<>>
    /\ resolving = <<>>
    /\ cancels = <<>>
    /\ clock = 0
    /\ response = Resp("start", 201, "", 2)
    /\ tasks = <<>>
    /\ taskCancels = <<>>

\* A task over two agents whose asks succeed and fail: the agents stream text,
\* answer and reject their prompts, asks time out, and a direct ask may hold
\* agent a1.
NextFail ==
    \/ \E body \in SiblingBodies \cup RacingPair : FirstTask(body)
    \/ AskDirect("a1", FALSE)
    \/ \E a \in 1..Len(asks) : PromptResolve(a, Some("end_turn"))
    \/ \E a \in 1..Len(asks), message \in RawErrors : PromptReject(a, message)
    \/ \E a \in 1..Len(asks) : AskTimeout(a)
    \/ \E r \in 1..Len(records) : SessionUpdate(r, "agent_message_chunk", "x")

SpecFail == InitTwo /\ [][NextFail]_vars

\* the task POST /tasks leaves behind for one subtask on the unregistered
\* agent a2, whose ask was refused at once, at time updatedAt
FailedTask(updatedAt) ==
    [ name |-> "t", state |-> "error",
      subtasks |-> << [NewSubtask(Sub("", "a2", Plain, <<>>), 1) EXCEPT
                          !.state = "error", !.error = Some(AgentNotFound),
                          !.signals = 1,
                          !.pc = "finished", !.message = AgentNotFound] >>,
      updatedAt |-> updatedAt, cancelRequested |-> FALSE,
      stored |-> TRUE, runTaskDone |-> TRUE ]

\* the same task after DELETE /tasks/:id at time updatedAt
DeletedTask(updatedAt) ==
    [FailedTask(updatedAt) EXCEPT !.state = "cancelled", !.cancelRequested = TRUE]

\* the task POST /tasks leaves behind for one subtask on agent a1, whose ask
\* was accepted at time updatedAt
RunningTask(updatedAt) ==
    [ name |-> "t", state |-> "running",
      subtasks |-> << [NewSubtask(Sub("", "a1", Plain, <<>>), 1) EXCEPT
                          !.state = "running", !.pc = "asking"] >>,
      updatedAt |-> updatedAt, cancelRequested |-> FALSE,
      stored |-> TRUE, runTaskDone |-> FALSE ]

\* how many terminal tasks the map holds, how their updatedAt (0, 1 or 2) runs
\* along the insertion order, and where the running task stands
TerminalCounts == {1, MAX_COMPLETED_TASKS - 1, MAX_COMPLETED_TASKS}
Patterns == {"ascending", "descending", "mixed"}
RunningAt == {"nowhere", "first", "last"}

TerminalTasks(n, pattern) ==
    [k \in 1..n |->
        CASE pattern = "ascending" -> FailedTask((3 * (k - 1)) \div n)
          [] pattern = "descending" -> DeletedTask(2 - (3 * (k - 1)) \div n)
          [] OTHER -> DeletedTask(k % 3)]

TaskMap(n, pattern, running) ==
    CASE running = "first" -> << RunningTask(0) >> \o TerminalTasks(n, pattern)
      [] running = "last" -> TerminalTasks(n, pattern) \o << RunningTask(2) >>
      [] OTHER -> TerminalTasks(n, pattern)

\* the times at which the map is looked at again: from one TTL after time 0 on
EvictionTimes == { TASK_TTL_MS, TASK_TTL_MS + 1, 2 * TASK_TTL_MS + 2 }

\* The state at time 2 after startAgent("a1") and a series of POST /tasks and
\* DELETE /tasks/:id: a map of terminal tasks and at most one running task,
\* whose subtask agent a1 is serving.
InitEvict ==
    /\ agents = [n \in Names |-> IF n = "a1" THEN 1 ELSE 0]
    /\ children = << "running" >>
    /\ starting = [n \in Names |-> NoStart]
    /\ chunkSubscribers = [n \in Names |-> {}]
    /\ nextPermissionRequestId = 1
    /\ continuations = <<>>
    /\ resolving = <<>>
    /\ cancels = <<>>
    /\ clock = 2
    /\ response = NoResponse
    /\ taskCancels = <<>>
    /\ \E n \in TerminalCounts, pattern \in Patterns, running \in RunningAt :
          LET at == IF running = "first" THEN 1 ELSE n + 1
              marker == Marker(at, RunningTask(0).subtasks[1])
          IN  /\ tasks = TaskMap(n, pattern, running)
              /\ records = IF running = "nowhere"
                           THEN << NewRecord("a1", TRUE, 0, <<>>) >>
                           ELSE << askAgentEntry(NewRecord("a1", TRUE, 0, <<>>), marker,
                                                 tasks[at].updatedAt).record >>
              /\ asks = IF running = "nowhere" THEN <<>>
                        ELSE << NewAsk(1, marker, FALSE, << "p" >>) >>

\* The eviction of tasks: time passes, the timer runs a pass, the running task
\* ends or is deleted, the last task is deleted, again when it is terminal.
NextEvict ==
    \/ \E now \in EvictionTimes : TimePasses(now)
    \/ cleanupInterval
    \/ \E t \in {1, Len(tasks)} :
          (t = Len(tasks) \/ tasks[t].state = "running") /\ TaskCancelBegin(t)
    \/ \E c \in 1..Len(taskCancels) : TaskCancelStep(c, TRUE)
    \/ \E a \in 1..Len(asks) : PromptResolve(a, Some("end_turn"))
    \/ \E a \in 1..Len(asks) : AskTimeout(a)

SpecEvict == InitEvict /\ [][NextEvict]_vars

\* A task and direct asks on the same agent: asks, POST cancel and DELETE
\* /tasks/:id interleave, and the agent requests permissions.
NextScope ==
    \/ \E name \in OneName : AskDirect(name, FALSE)
    \/ \E body \in RunnableBodies : FirstTask(body)
    \/ \E a \in 1..Len(asks) : PromptResolve(a, Some("end_turn"))
    \/ \E a \in 1..Len(asks) : AskTimeout(a)
    \/ \E r \in 1..Len(records), options \in UsualOptions : RequestPermission(r, options)
    \/ \E name \in OneName : CancelBegin(name)
    \/ \E c \in 1..Len(cancels) : CancelFinish(c)
    \/ \E t \in 1..Len(tasks) : TaskCancelBegin(t)
    \/ \E c \in 1..Len(taskCancels) : TaskCancelStep(c, TRUE)

SpecScope == InitOne /\ [][NextScope]_vars

\* Asks whose prompts fail with every message the classifier can tell apart.
NextClassify ==
    \/ \E name \in OneName : AskDirect(name, FALSE)
    \/ \E a \in 1..Len(asks), message \in Messages : PromptReject(a, message)

SpecClassify == InitOne /\ [][NextClassify]_vars

\* The stderr of an agent over its life: chunks arrive as the clock advances,
\* while the agent runs, after it was stopped and after its child exited.
NextStderr ==
    \/ Tick
    \/ \E r \in 1..Len(records) :
          \E data \in Chunks(NextLabel(records[r].stderrBuffer)) : StderrData(r, data)
    \/ \E name \in OneName : StopAgent(name)
    \/ \E r \in 1..Len(records) : ChildExit(r)

SpecStderr == InitOne /\ [][NextStderr]_vars

\* one agent registered, its handshake answered with either protocol version
InitExit ==
    /\ agents = [n \in Names |-> IF n = "a1" THEN 1 ELSE 0]
    /\ \E protocolOk \in BOOLEAN : records = << NewRecord("a1", protocolOk, 0, <<>>) >>
    /\ children = << "running" >>
    /\ starting = [n \in Names |-> NoStart]
    /\ asks = <<>>
    /\ chunkSubscribers = [n \in Names |-> {}]
    /\ nextPermissionRequestId = 1
    /\ continuations = <<>>
    /\ resolving = <<>>
    /\ cancels = <<>>
    /\ clock = 0
    /\ response = Resp("start", 201, "", 1)
    /\ tasks = <<>>
    /\ taskCancels = <<>>

\* The life of a registered agent up to the exit of its child: asked,
\* answered or failed, asked for permissions, stopped, as the clock advances.
NextExit ==
    \/ Tick
    \/ \E name \in OneName : StopAgent(name)
    \/ \E r \in 1..Len(records) : ChildExit(r)
    \/ \E name \in OneName : AskDirect(name, FALSE)
    \/ \E a \in 1..Len(asks) : PromptResolve(a, Some("end_turn"))
    \/ \E a \in 1..Len(asks), message \in RawErrors : PromptReject(a, message)
    \/ \E r \in 1..Len(records), options \in UsualOptions : RequestPermission(r, options)

SpecExit == InitExit /\ [][NextExit]_vars

\* Starts, stops and exits under one name: starts of both agent types with
\* and without binary and credential, endpoint checks that pass and fail,
\* handshakes that complete and fail, children that write to stderr or exit
\* before they are registered.
NextStart ==
    \/ \E name \in OneName, type \in AgentTypes, binary \in BOOLEAN, key \in BOOLEAN :
          StartAgentCheck(name, type, binary, key)
    \/ \E name \in OneName, reachable \in BOOLEAN : PreflightSettle(name, reachable)
    \/ \E name \in OneName, status \in {400, 500} : StartAgentFail(name, status)
    \/ \E name \in OneName, protocolOk \in BOOLEAN : StartAgentRegister(name, protocolOk)
    \/ \E name \in OneName :
          /\ \A h \in 1..Len(starting[name].handshake) :
                starting[name].handshake[h].stderrBuffer = <<>>
          /\ StderrBeforeRegister(name, <<"w", "\n">>)
    \/ \E name \in OneName : ChildExitBeforeRegister(name)
    \/ \E name \in OneName : StopAgent(name)
    \/ \E r \in 1..Len(records) : ChildExit(r)

SpecStart == Init /\ [][NextStart]_vars

\* Stops and restarts under one name while the agents request permissions:
\* the children answer their handshakes without a word on stderr.
NextRestart ==
    \/ \E name \in OneName, type \in AgentTypes, binary \in BOOLEAN, key \in BOOLEAN :
          StartAgentCheck(name, type, binary, key)
    \/ \E name \in OneName, reachable \in BOOLEAN : PreflightSettle(name, reachable)
    \/ \E name \in OneName, status \in {400, 500} : StartAgentFail(name, status)
    \/ \E name \in OneName, protocolOk \in BOOLEAN : StartAgentRegister(name, protocolOk)
    \/ \E name \in OneName : StopAgent(name)
    \/ \E r \in 1..Len(records) : ChildExit(r)
    \/ \E r \in 1..Len(records), options \in UsualOptions : RequestPermission(r, options)

SpecRestart == Init /\ [][NextRestart]_vars

\* Tasks whose prompts quote subtasks they do not wait for, on two agents
\* that stream text and answer in any order.
NextRender ==
    \/ \E body \in QuotingBodies \cup SiblingBodies : FirstTask(body)
    \/ \E a \in 1..Len(asks) : PromptResolve(a, Some("end_turn"))
    \/ \E r \in 1..Len(records) : SessionUpdate(r, "agent_message_chunk", "x")

SpecRender == InitTwo /\ [][NextRender]_vars

\* ------------------------------------------------------------------ claims
Registered == {r \in 1..Len(records) : \E n \in Names : agents[n] = r}

\* the prompts sent on record r's connection and not yet settled
OutstandingPrompts(r) ==
    {a \in 1..Len(asks) : asks[a].rec = r /\ asks[a].prompt = "outstanding"}

\* the requestIds in a queue, in queue order
RequestIds(queue) == [i \in 1..Len(queue) |-> queue[i].requestId]

InQueue(id, r) ==
    \E i \in 1..Len(records[r].pendingPermissions) :
        records[r].pendingPermissions[i].requestId = id

\* C1: at most one prompt sent by the bridge to an agent is outstanding (sent
\* and not yet settled), in every reachable state.  Stated for the agents whose
\* child is alive and untouched, where an outstanding prompt is one the agent
\* is still working on.
C1_PromptMutex ==
    \A r \in 1..Len(records) :
        children[r] = "running" => Cardinality(OutstandingPrompts(r)) <= 1

\* C2: a registered agent is in state working if and only if a prompt issued
\* by an ask is in flight for it or its pendingPermissions queue is non-empty.
\* Stated for the registered agents whose child is alive.
C2_WorkingIff ==
    \A r \in Registered :
        children[r] = "running" =>
        ( records[r].state = "working"
            <=> (OutstandingPrompts(r) # {} \/ records[r].pendingPermissions # <<>>) )

\* C3: a registered agent's pendingPermissions is non-empty only if its state
\* is working; an idle agent has an empty queue.
C3_PendingOnlyWhileWorking ==
    \A r \in Registered :
        records[r].pendingPermissions # <<>> => records[r].state = "working"

\* C4: no continuation is completed more than once, and a request sits in a
\* queue (its own record's, and no other) exactly while it is not completed.
C4_ResolvedOnce ==
    \A id \in 1..Len(continuations) :
        /\ Len(continuations[id].outcomes) <= 1
        /\ \A r \in 1..Len(records) :
              InQueue(id, r) <=> (r = continuations[id].rec /\ continuations[id].outcomes = <<>>)

\* two requests completed, one by approve or deny and the other by the cancel
\* of a task, no other cancel path having run
C4_Witness ==
    /\ response.op = "cancelTask"
    /\ response.status = 200
    /\ cancels = <<>>
    /\ \A r \in 1..Len(records) : children[r] = "running"
    /\ \E i, j \in 1..Len(continuations) :
          /\ continuations[i].outcomes = << Cancelled >>
          /\ Len(continuations[j].outcomes) = 1
          /\ continuations[j].outcomes[1].outcome = "selected"

\* C5: once an agent is destroyed (stopAgent ran on its record, or its child
\* exited) no permission request of its child remains parked and unresolved.
Destroyed(r) == children[r] # "running"

C5_DestroyedHasNoPending ==
    \A r \in 1..Len(records) : Destroyed(r) => records[r].pendingPermissions = <<>>

\* C6: the queue is FIFO.  A queue holds, in ascending requestId, exactly the
\* unresolved requests parked on its record, so every resolution took the then
\* oldest request and left the rest in order: of two requests parked on one
\* record the later is never resolved while the earlier is still queued.
C6_Fifo ==
    /\ \A r \in 1..Len(records) :
          LET q == RequestIds(records[r].pendingPermissions) IN
          /\ \A i, j \in 1..Len(q) : i < j => q[i] < q[j]
          /\ {q[i] : i \in 1..Len(q)} = Unanswered(r)
    /\ \A i, j \in 1..Len(continuations) :
          ( /\ continuations[i].rec = continuations[j].rec
            /\ i < j
            /\ continuations[j].outcomes # <<>> )
          => continuations[i].outcomes # <<>>

\* approve or deny resolved the older of two parked requests; the newer is queued
C6_Witness ==
    /\ response.op \in {"approve", "deny"}
    /\ response.status = 200
    /\ \E r \in 1..Len(records) :
          /\ records[r].pendingPermissions # <<>>
          /\ Head(records[r].pendingPermissions).requestId > response.n
          /\ continuations[response.n].rec = r

\* C7 as claimed: approve (deny) resolves the head with selected and the
\* caller's optionId if it is advertised, else the first option whose kind
\* starts with allow (reject), else the first option.
OptionIds(options) == {options[i].optionId : i \in 1..Len(options)}

Preferred(options, decision) ==
    {i \in 1..Len(options) :
        StartsWith(options[i].kind, IF decision = "approve" THEN Allow ELSE Reject)}

Least(S) == CHOOSE i \in S : \A j \in S : i <= j

ClaimedOptionId(options, decision, e) ==
    IF e # None /\ e[1] \in OptionIds(options) THEN e[1]
    ELSE IF Preferred(options, decision) # {}
         THEN options[Least(Preferred(options, decision))].optionId
    ELSE IF options # <<>> THEN options[1].optionId
    ELSE "(no option)"

HeadRequest(r) == Head(records[r].pendingPermissions)

C7_AsClaimed ==
    [][\A i \in 1..Len(resolving), decision \in {"approve", "deny"}, e \in ExplicitIds :
         ( /\ records[resolving[i].rec].pendingPermissions # <<>>
           /\ ApproveDenyFinish(i, decision, e) )
         => continuations'[HeadRequest(resolving[i].rec).requestId].outcomes
              = << Selected(ClaimedOptionId(HeadRequest(resolving[i].rec).options,
                                            decision, e)) >>]_vars

\* C7 as amended: an empty optionId in the body counts as none supplied, and
\* the request is resolved cancelled when it advertises no option or when the
\* optionId so chosen is the empty string; every outcome ever delivered is
\* cancelled or selects an optionId of the request's own option list.
AmendedOutcome(options, decision, e) ==
    LET supplied == IF e # None /\ e[1] # "" THEN e ELSE None
        id == ClaimedOptionId(options, decision, supplied)
    IN  IF options = <<>> \/ id = "" THEN Cancelled ELSE Selected(id)

C7_OptionSelection ==
    [][ /\ \A i \in 1..Len(resolving), decision \in {"approve", "deny"}, e \in ExplicitIds :
             ( /\ records[resolving[i].rec].pendingPermissions # <<>>
               /\ ApproveDenyFinish(i, decision, e) )
             => continuations'[HeadRequest(resolving[i].rec).requestId].outcomes
                  = << AmendedOutcome(HeadRequest(resolving[i].rec).options,
                                      decision, e) >>
        /\ \A id \in 1..Len(continuations') :
             \A k \in 1..Len(continuations'[id].outcomes) :
                LET o == continuations'[id].outcomes[k] IN
                \/ o = Cancelled
                \/ o.outcome = "selected" /\ o.optionId \in OptionIds(continuations'[id].options)
      ]_vars

\* approve took the allow option that is neither first nor named by the caller
C7_Witness ==
    /\ response.op = "approve"
    /\ response.status = 200
    /\ continuations[response.n].options # <<>>
    /\ continuations[response.n].options[1].kind = KindOther
    /\ continuations[response.n].outcomes = << Selected("o1") >>

\* C8: approve or deny on an agent whose queue is empty when the handler comes
\* to resolve answers 409 no_pending_permissions and changes neither the records
\* (queue, state, updatedAt) nor any continuation.
C8_EmptyQueueNoOp ==
    [][\A i \in 1..Len(resolving), decision \in {"approve", "deny"}, e \in ExplicitIds :
         ( /\ records[resolving[i].rec].pendingPermissions = <<>>
           /\ ApproveDenyFinish(i, decision, e) )
         => ( /\ response'.status = 409
              /\ response'.error = "no_pending_permissions"
              /\ records' = records
              /\ continuations' = continuations )]_vars

C8_Witness ==
    /\ response.op \in {"approve", "deny"}
    /\ response.status = 409
    /\ records[1].updatedAt # clock
    /\ Len(continuations) > 0

\* C9: cancelAll is idempotent.  From any reachable state, cancelAll on a
\* record resolves every queued request with cancelled, reports their number
\* and empties the queue; run again on what it left, it reports zero and
\* changes neither the record nor any continuation.
C9_CancelAllIdempotent ==
    \A r \in 1..Len(records) :
        LET queue == records[r].pendingPermissions
            first == cancelAllPendingPermissions(records[r], continuations, clock)
            second == cancelAllPendingPermissions(first.record, first.conts, clock)
        IN  /\ first.record.pendingPermissions = <<>>
            /\ first.count = Len(queue)
            /\ \A id \in 1..Len(continuations) :
                  first.conts[id].outcomes =
                      IF InQueue(id, r) THEN Append(continuations[id].outcomes, Cancelled)
                      ELSE continuations[id].outcomes
            /\ second.count = 0
            /\ second.record = first.record
            /\ second.conts = first.conts

\* a cancel handler has just drained two requests
C9_Witness ==
    /\ response.op = "cancel"
    /\ response.status = 200
    /\ response.n = 2
    /\ \A id \in 1..2 : continuations[id].outcomes = << Cancelled >>

\* C10: an ask on a registered agent in state working is rejected as busy,
\* sends no prompt and changes neither the records (state, currentText,
\* stopReason, activeTask) nor the chunk subscribers.
C10_BusyAskNoOp ==
    [][\A name \in Names, onChunk \in BOOLEAN :
         ( /\ agents[name] # 0
           /\ records[agents[name]].state = "working"
           /\ AskDirect(name, onChunk) )
         => ( /\ response'.status = 500
              /\ response'.error = "Agent is busy"
              /\ asks' = asks
              /\ records' = records
              /\ chunkSubscribers' = chunkSubscribers )]_vars

\* a busy rejection on a record that carries the marker of the task now
\* prompting it and text received in this turn
C10_Witness ==
    /\ response.op = "ask"
    /\ response.error = "Agent is busy"
    /\ \E r \in Registered :
          /\ records[r].state = "working"
          /\ records[r].activeTask # None
          /\ records[r].currentText # <<>>

\* C11: when the ask timer fires before the prompt settles the ask fails with
\* 408, the record is idle with stopReason "timeout" and the timeout message as
\* lastError, and the child is left alone; when the abandoned prompt settles
\* later (answer or error) no record changes and nothing more is reported.
C11_TimeoutWins ==
    [][ /\ \A a \in 1..Len(asks) :
             AskTimeout(a) =>
               /\ children' = children
               /\ asks[a].activeTask = None =>
                    /\ response'.status = 408
                    /\ response'.error = "ask timeout"
                    /\ response'.message = TimeoutMessage
                    /\ response'.stopReason = Some("timeout")
                    /\ records'[asks[a].rec].state = "idle"
                    /\ records'[asks[a].rec].stopReason = Some("timeout")
                    /\ records'[asks[a].rec].lastError = Some(TimeoutMessage)
        /\ \A a \in 1..Len(asks) :
             ( /\ asks[a].pc = "returned"
               /\ \/ \E stopReason \in StopReasons : PromptResolve(a, stopReason)
                  \/ \E message \in RawErrors : PromptReject(a, message) )
             => records' = records /\ response' = NoResponse
      ]_vars

\* the only ask timed out and its prompt was answered afterwards
C11_Witness ==
    /\ Len(asks) = 1
    /\ asks[1].pc = "returned"
    /\ asks[1].prompt = "resolved"
    /\ records[asks[1].rec].state = "idle"
    /\ records[asks[1].rec].stopReason = Some("timeout")
    /\ records[asks[1].rec].lastError = Some(TimeoutMessage)
    /\ children[asks[1].rec] = "running"

\* C12: an ask with an onChunk subscriber that completes successfully returns
\* as its response exactly the chunks its subscriber received, in order.
C12_ChunksEqualResponse ==
    ( /\ response.op = "ask"
      /\ response.status = 200
      /\ asks[response.n].onChunk )
    => response.chunks = response.text

\* C13: when the prompt of an ask still waiting for it rejects, the ask fails
\* with the error's own message, the record's state is error and its lastError
\* is the classified message; a prompt that resolves changes no lastError,
\* whatever text was streamed.
C13_RejectClassified ==
    [][ /\ \A a \in 1..Len(asks), message \in RawErrors :
             ( /\ asks[a].pc = "awaiting"
               /\ asks[a].activeTask = None
               /\ PromptReject(a, message) )
             => /\ response'.status = 500
                /\ response'.message = message
                /\ records'[asks[a].rec].state = "error"
                /\ records'[asks[a].rec].lastError = Some(classifyAskError(message))
        /\ \A a \in 1..Len(asks), stopReason \in StopReasons :
             PromptResolve(a, stopReason)
             => \A r \in 1..Len(records) : records'[r].lastError = records[r].lastError
      ]_vars

\* an ask has just returned text holding 401 on a record whose lastError is the
\* classified message of an earlier ask's error
C13_Witness ==
    /\ response.op = "ask"
    /\ response.status = 200
    /\ response.text = << "401" >>
    /\ records[asks[response.n].rec].lastError = Some(<<"Rate limited. Check proxy quota.">>)

\* C14: the classifier's rules taken in their listed order, each on the whole
\* message: 401 or 403 anywhere, else 429, else 503, else ECONNREFUSED, else
\* ENOTFOUND, else the message itself.
ClaimedClassification(message) ==
    IF Includes(message, "401") \/ Includes(message, "403")
    THEN <<"API key invalid or expired. Check your key.">>
    ELSE IF Includes(message, "429") THEN <<"Rate limited. Check proxy quota.">>
    ELSE IF Includes(message, "503") THEN <<"Service unavailable. Check proxy status.">>
    ELSE IF Includes(message, "ECONNREFUSED") THEN <<"Connection refused. Check base URL.">>
    ELSE IF Includes(message, "ENOTFOUND") THEN <<"DNS resolution failed. Check network.">>
    ELSE message

\* C14: the lastError a rejected prompt leaves is the classification by the
\* rules in their listed order, for every message.
C14_RulesInOrder ==
    [][\A a \in 1..Len(asks), message \in Messages :
         ( /\ asks[a].pc = "awaiting"
           /\ PromptReject(a, message) )
         => /\ response'.message = message
            /\ records'[asks[a].rec].lastError = Some(ClaimedClassification(message))]_vars

\* a submission is faulty when two subtasks get the same id, a dependsOn entry
\* names no subtask or the subtask's own id, or some subtask reaches itself
\* along dependsOn; a stored task is well formed when none of this holds
Faulty(subtasks) ==
    \/ \E i, j \in 1..Len(subtasks) : i # j /\ subtasks[i].id = subtasks[j].id
    \/ \E i \in 1..Len(subtasks) : \E k \in 1..Len(subtasks[i].dependsOn) :
          \/ \A j \in 1..Len(subtasks) : subtasks[j].id # subtasks[i].dependsOn[k]
          \/ subtasks[i].dependsOn[k] = subtasks[i].id
    \/ \E i \in 1..Len(subtasks) : i \in DependsWithin(subtasks, i, Len(subtasks))

\* createTask throws on exactly the faulty submissions
RejectsFaulty ==
    \A body \in GraphBodies \cup ShapedBodies :
        createTaskRecord(body, 0).error # "" <=> Faulty(NewSubtasks(body.subtasks))

\* C15: createTask throws on every faulty submission and on no other; a
\* creation that throws answers 400, stores nothing and sends no prompt, one
\* that does not answers 201 and stores the task; every task ever stored is
\* well formed.
C15_GraphValidated ==
    [][ /\ RejectsFaulty
        /\ response'.op = "createTask" =>
               IF response'.status = 400
               THEN tasks' = tasks /\ asks' = asks /\ records' = records
               ELSE /\ response'.status = 201
                    /\ Len(tasks') = Len(tasks) + 1
                    /\ tasks'[Len(tasks')].stored
        /\ \A t \in 1..Len(tasks') : ~Faulty(tasks'[t].subtasks)
      ]_vars

\* a task of three subtasks, the third depending on the other two and the
\* second on the first, has just been stored
C15_Witness ==
    /\ response.op = "createTask"
    /\ response.status = 201
    /\ Len(tasks[response.n].subtasks) = 3
    /\ tasks[response.n].subtasks[2].dependsOn = << "s1" >>
    /\ tasks[response.n].subtasks[3].dependsOn = << "s1", "s2" >>

\* the dependencies of subtask i of a task: the subtasks its dependsOn names
DependenciesOf(task, i) ==
    {d \in 1..Len(task.subtasks) :
        \E k \in 1..Len(task.subtasks[i].dependsOn) :
            task.subtasks[d].id = task.subtasks[i].dependsOn[k]}

\* text occurs in sent as a run of consecutive words
Contains(sent, text) ==
    \E from \in 0..Len(sent) :
        /\ from + Len(text) <= Len(sent)
        /\ \A k \in 1..Len(text) : sent[from + k] = text[k]

\* the asks made for subtask i of task t
SubtaskAsks(t, i) ==
    {a \in 1..Len(asks) :
        asks[a].activeTask = Some([taskId |-> t, subtaskId |-> tasks[t].subtasks[i].id])}

\* C16 as stated: a subtask is running, and has had its prompt sent, only when
\* every dependency is terminal, and the prompt that was sent contains the
\* result of every done dependency
C16_AsClaimed ==
    \A t \in 1..Len(tasks) : \A i \in 1..Len(tasks[t].subtasks) :
        LET task == tasks[t] IN
        (task.subtasks[i].state = "running" \/ SubtaskAsks(t, i) # {}) =>
            /\ \A d \in DependenciesOf(task, i) : isSubtaskTerminal(task.subtasks[d].state)
            /\ \A a \in SubtaskAsks(t, i) : \A d \in DependenciesOf(task, i) :
                  (task.subtasks[d].state = "done" /\ task.subtasks[d].result # None) =>
                      Contains(asks[a].sent, task.subtasks[d].result[1])

\* what a piece of a prompt stands for: its word, or the result of the subtask
\* its placeholder names (nothing when there is none, or it has no result)
PieceText(task, piece) ==
    IF piece.ref = "" THEN << piece.word >>
    ELSE LET named == {d \in 1..Len(task.subtasks) : task.subtasks[d].id = piece.ref} IN
         IF named = {} THEN <<>>
         ELSE LET d == CHOOSE d \in named : TRUE IN
              IF task.subtasks[d].result = None THEN <<>> ELSE task.subtasks[d].result[1]

RECURSIVE Substituted(_, _, _)
Substituted(task, prompt, k) ==
    IF k > Len(prompt) THEN <<>>
    ELSE PieceText(task, prompt[k]) \o Substituted(task, prompt, k + 1)

\* the asks among as made for subtask i of task t of the map ts
AsksFor(as, ts, t, i) ==
    {a \in 1..Len(as) :
        as[a].activeTask = Some([taskId |-> t, subtaskId |-> ts[t].subtasks[i].id])}

\* C16, amended: a subtask is running, and has had its prompt sent, only when
\* every dependency is terminal; the prompt sent in the step in which the
\* subtask starts is its prompt with every {{id.result}} placeholder replaced
\* by the result the subtask called id has at that moment, whether or not it
\* is one of the dependencies, and by nothing when that subtask has no result
\* or no subtask has that id; the prompt of an ask never changes afterwards.
\* A dependency's result appears only where a placeholder asks for it.
C16_RenderedAfterDependencies ==
    [][ /\ \A t \in 1..Len(tasks') : \A i \in 1..Len(tasks'[t].subtasks) :
              LET task == tasks'[t] IN
              (task.subtasks[i].state = "running" \/ AsksFor(asks', tasks', t, i) # {}) =>
                  /\ \A d \in DependenciesOf(task, i) :
                        isSubtaskTerminal(task.subtasks[d].state)
                  /\ \A a \in AsksFor(asks', tasks', t, i) :
                        a > Len(asks) =>
                            asks'[a].sent = Substituted(task, task.subtasks[i].prompt, 1)
        /\ \A a \in 1..Len(asks) : asks'[a].sent = asks[a].sent ]_vars

\* s3 waits for s2 and quotes s1: s2 ended without text, and the prompt sent
\* for s3 carries the result of s1, which s3 does not depend on
C16_Witness ==
    \E t \in 1..Len(tasks) :
        LET task == tasks[t] IN
        /\ Len(task.subtasks) = 3
        /\ task.subtasks[3].state = "running"
        /\ task.subtasks[3].dependsOn = << "s2" >>
        /\ task.subtasks[3].prompt = << Word("p"), Ref("s1") >>
        /\ task.subtasks[1].state = "done" /\ task.subtasks[1].result = Some(<< "x" >>)
        /\ task.subtasks[2].state = "done" /\ task.subtasks[2].result = Some(<<>>)
        /\ \E a \in SubtaskAsks(t, 3) : asks[a].sent = << "p", "x" >>

\* C17 as stated: whenever a subtask left pending, by starting or by being
\* marked cancelled, every one of its dependencies was terminal already
C17_AsClaimed ==
    \A t \in 1..Len(tasks) : \A i \in 1..Len(tasks[t].subtasks) :
        tasks[t].subtasks[i].state # "pending" => tasks[t].subtasks[i].openAtLeave = {}

\* C17, amended: a subtask that has left pending has only terminal
\* dependencies in every state between two steps of the event loop.  A
\* subtask that started did so with every dependency terminal.  A pending
\* subtask that cancelTask marked cancelled may have had dependencies that
\* were not terminal at that moment: they are listed behind it, and the same
\* uninterrupted loop has marked them cancelled.
C17_LeavesPendingAfterDependencies ==
    \A t \in 1..Len(tasks) : \A i \in 1..Len(tasks[t].subtasks) :
        LET subtask == tasks[t].subtasks[i] IN
        subtask.state # "pending" =>
            /\ \A d \in DependenciesOf(tasks[t], i) :
                  isSubtaskTerminal(tasks[t].subtasks[d].state)
            /\ subtask.openAtLeave # {} =>
                  /\ subtask.state = "cancelled"
                  /\ tasks[t].cancelRequested
                  /\ SubtaskAsks(t, i) = {}
                  /\ \A d \in subtask.openAtLeave :
                        /\ d > i
                        /\ d \in DependenciesOf(tasks[t], i)
                        /\ tasks[t].subtasks[d].state = "cancelled"

\* a subtask listed before the dependency it waited for was cancelled with
\* it, and before it: the dependency was running when the subtask was marked
C17_Witness ==
    \E t \in 1..Len(tasks) :
        /\ tasks[t].cancelRequested
        /\ Len(tasks[t].subtasks) = 2
        /\ tasks[t].subtasks[1].dependsOn = << "s2" >>
        /\ tasks[t].subtasks[1].state = "cancelled"
        /\ tasks[t].subtasks[1].openAtLeave = {2}
        /\ tasks[t].subtasks[2].state = "cancelled"
        /\ \E a \in SubtaskAsks(t, 2) : asks[a].pc = "awaiting"

\* the steps a subtask may take: it stays as it is, a pending one starts or is
\* cancelled (and may fail at once), a running one ends; a terminal one keeps
\* its state, its result and its error
SubtaskMoves(old, new) ==
    CASE old.state = "pending" -> new.state \in {"pending", "running", "error", "cancelled"}
      [] old.state = "running" -> new.state \in {"running", "done", "error", "cancelled"}
      [] OTHER -> new.state = old.state /\ new.result = old.result /\ new.error = old.error

\* C18: a subtask's state only moves pending -> running -> done, error or
\* cancelled, or pending -> cancelled; once terminal, its state, result and
\* error never change, whatever its ask does afterwards
C18_SubtaskMonotonic ==
    [][ /\ Len(tasks') >= Len(tasks)
        /\ \A t \in 1..Len(tasks) :
              /\ Len(tasks'[t].subtasks) = Len(tasks[t].subtasks)
              /\ \A i \in 1..Len(tasks[t].subtasks) :
                    SubtaskMoves(tasks[t].subtasks[i], tasks'[t].subtasks[i]) ]_vars

\* the ask of a cancelled subtask has settled with text, and the subtask kept
\* its state and has no result
C18_Witness ==
    \E t \in 1..Len(tasks) : \E i \in 1..Len(tasks[t].subtasks) :
        /\ tasks[t].subtasks[i].state = "cancelled"
        /\ tasks[t].subtasks[i].result = None
        /\ tasks[t].subtasks[i].pc = "finished"
        /\ \E a \in SubtaskAsks(t, i) :
              /\ asks[a].pc = "returned"
              /\ asks[a].prompt = "resolved"
              /\ records[asks[a].rec].lastText # <<>>

SubtaskStates(task) == {task.subtasks[i].state : i \in 1..Len(task.subtasks)}

\* C19: a task with a pending or running subtask is running; a done, error or
\* cancelled task has only terminal subtasks
C19_TerminalTaskHasTerminalSubtasks ==
    \A t \in 1..Len(tasks) :
        SubtaskStates(tasks[t]) \cap {"pending", "running"} # {} =>
            tasks[t].state = "running"

\* of two subtasks woken by the same dependency the one registered first took
\* the agent and the other failed on the busy agent: the task is running
C19_Witness ==
    \E t \in 1..Len(tasks) :
        /\ tasks[t].state = "running"
        /\ Len(tasks[t].subtasks) = 4
        /\ tasks[t].subtasks[2].state = "done"
        /\ tasks[t].subtasks[3].state = "error"
        /\ tasks[t].subtasks[3].error = Some(AgentBusy)
        /\ tasks[t].subtasks[4].state = "running"

\* done exactly when every subtask is done, error exactly when some subtask is
\* in error and all are terminal
StateFromSubtasks(task) ==
    /\ task.state = "done" <=> SubtaskStates(task) = {"done"}
    /\ task.state = "error" <=>
          /\ "error" \in SubtaskStates(task)
          /\ SubtaskStates(task) \subseteq {"done", "error", "cancelled"}

\* C20: whatever completions, failures and DELETE /tasks/:id requests came
\* before, a task is done iff all its subtasks are done, and error iff some
\* subtask is in error and the others are terminal
C20_AsClaimed ==
    \A t \in 1..Len(tasks) : StateFromSubtasks(tasks[t])

\* the subtasks of a task that are pending or running
OpenSubtasks(task) ==
    {i \in 1..Len(task.subtasks) : task.subtasks[i].state \in {"pending", "running"}}

\* the asks made for the subtasks of task t, among the asks as
TaskAsks(as, t) ==
    {a \in 1..Len(as) : as[a].activeTask # None /\ as[a].activeTask[1].taskId = t}

\* C21: the step that applies DELETE /tasks/:id to a stored task leaves the
\* task cancelled, every pending or running subtask cancelled, the other
\* subtasks as they were, hence every subtask terminal, and sends no prompt; no
\* subtask of a cancelled task becomes running or issues an ask afterwards; the
\* count answered, at once or behind the awaits of cancelTask, is the number of
\* subtasks that were pending or running when the cancel was applied.
C21_CancelMarksAll ==
    [][ /\ \A t \in 1..Len(tasks) :
              (tasks[t].stored /\ TaskCancelBegin(t)) =>
                  /\ tasks'[t].state = "cancelled"
                  /\ \A i \in 1..Len(tasks[t].subtasks) :
                        /\ tasks'[t].subtasks[i].state =
                              IF i \in OpenSubtasks(tasks[t]) THEN "cancelled"
                              ELSE tasks[t].subtasks[i].state
                        /\ isSubtaskTerminal(tasks'[t].subtasks[i].state)
                  /\ asks' = asks
                  /\ response'.op = "cancelTask" =>
                        response'.n = Cardinality(OpenSubtasks(tasks[t]))
        /\ \A c \in 1..Len(taskCancels) :
              (TaskCancelStep(c, TRUE) /\ response'.op = "cancelTask") =>
                  LET task == tasks[taskCancels[c].task] IN
                  response'.n = Cardinality({i \in 1..Len(task.subtasks) :
                                                task.subtasks[i].state = "cancelled"})
        /\ \A t \in 1..Len(tasks) :
              tasks[t].cancelRequested =>
                  /\ TaskAsks(asks', t) = TaskAsks(asks, t)
                  /\ \A i \in 1..Len(tasks[t].subtasks) :
                        tasks'[t].subtasks[i].state = "running" =>
                            tasks[t].subtasks[i].state = "running" ]_vars

\* a running subtask and the subtask waiting for it were cancelled together:
\* the count is 2, and the only ask ever made is the first subtask's
C21_Witness ==
    /\ response.op = "cancelTask"
    /\ response.status = 200
    /\ response.n = 2
    /\ \E t \in 1..Len(tasks) :
          /\ tasks[t].state = "cancelled"
          /\ Len(tasks[t].subtasks) = 2
          /\ tasks[t].subtasks[2].dependsOn = << "s1" >>
          /\ SubtaskStates(tasks[t]) = {"cancelled"}
          /\ SubtaskAsks(t, 2) = {}
          /\ SubtaskAsks(t, 1) # {}

\* C22: the step that applies DELETE /tasks/:id issues an ACP cancel, the
\* await of which cancelTask then stands behind, to the agent of every subtask
\* that was running (the agents of this model's tasks are one agent, so that
\* the cancel is issued in that step or never).
C22_RunningSubtaskCancelled ==
    [][ \A t \in 1..Len(tasks) :
            (tasks[t].stored /\ TaskCancelBegin(t)) =>
                \A i \in 1..Len(tasks[t].subtasks) :
                    tasks[t].subtasks[i].state = "running" =>
                        \E c \in 1..Len(taskCancels') :
                            /\ c > Len(taskCancels)
                            /\ taskCancels'[c].task = t
                            /\ records[taskCancels'[c].rec].name = tasks[t].subtasks[i].agent
      ]_vars

\* the records cancelTask may touch for task t: those carrying a marker of t
OwnedBy(t) ==
    {r \in 1..Len(records) :
        records[r].activeTask # None /\ records[r].activeTask[1].taskId = t}

\* C23: no step of cancelTask, before or behind its awaits, changes the state
\* or the pending permissions of an agent whose activeTask is not a marker of
\* the cancelled task, resolves a permission of such an agent, or touches an
\* already terminal subtask.
C23_CancelScoped ==
    [][ /\ \A t \in 1..Len(tasks) :
              (tasks[t].stored /\ TaskCancelBegin(t)) =>
                  /\ \A r \in (1..Len(records)) \ OwnedBy(t) :
                        /\ records'[r].state = records[r].state
                        /\ records'[r].pendingPermissions = records[r].pendingPermissions
                  /\ \A i \in 1..Len(tasks[t].subtasks) :
                        isSubtaskTerminal(tasks[t].subtasks[i].state) =>
                            tasks'[t].subtasks[i] = tasks[t].subtasks[i]
        /\ \A c \in 1..Len(taskCancels) :
              TaskCancelStep(c, TRUE) =>
                  /\ \A r \in (1..Len(records)) \ OwnedBy(taskCancels[c].task) :
                        /\ records'[r].state = records[r].state
                        /\ records'[r].pendingPermissions = records[r].pendingPermissions
                  /\ \A i \in 1..Len(tasks[taskCancels[c].task].subtasks) :
                        tasks'[taskCancels[c].task].subtasks[i]
                            = tasks[taskCancels[c].task].subtasks[i] ]_vars

\* subtask j of task t as the step found it: a subtask of a task the step
\* creates was pending when runTask took it up
SubtaskBefore(t, j) ==
    IF t <= Len(tasks) THEN tasks[t].subtasks[j]
    ELSE [tasks'[t].subtasks[j] EXCEPT !.state = "pending"]

\* the subtasks of task t that fail in the step: the ask of a running one
\* fails, or a pending one starts and its ask is refused at once
Failing(t) ==
    {i \in 1..Len(tasks'[t].subtasks) :
        SubtaskBefore(t, i).state \in {"pending", "running"} /\ tasks'[t].subtasks[i].state = "error"}

\* the prompt of running subtask j of task t settles in the step
OwnAskSettles(t, j) ==
    \E a \in 1..Len(asks) :
        /\ asks[a].activeTask = Some([taskId |-> t, subtaskId |-> tasks'[t].subtasks[j].id])
        /\ asks[a].pc = "awaiting"
        /\ asks'[a].pc # "awaiting"

\* C24: in a step in which a subtask fails, because the ask of a running
\* subtask fails or because a subtask that starts is refused by its agent,
\* every other running subtask stays running unless its own prompt settles in
\* that step, and a terminal one stays as it was; no subtask is cancelled; a
\* pending one has started if its dependencies are now all terminal (and has
\* failed on its own if its agent refused the ask) and is pending otherwise;
\* the prompt sent for a subtask that starts is its prompt with the
\* placeholder of a failed dependency replaced by nothing.
C24_FailureLocal ==
    [][ \A t \in 1..Len(tasks') : \A i \in Failing(t) :
            \A j \in (1..Len(tasks'[t].subtasks)) \ {i} :
                LET old == SubtaskBefore(t, j)
                    new == tasks'[t].subtasks[j]
                IN  /\ old.state = "running" =>
                          /\ new.state \in {"running", "done", "error"}
                          /\ new.state # "running" => OwnAskSettles(t, j)
                    /\ isSubtaskTerminal(old.state) => new = old
                    /\ old.state = "pending" =>
                          /\ new.state \in {"pending", "running", "error"}
                          /\ new.state = "pending" <=>
                                \E d \in DependenciesOf(tasks'[t], j) :
                                    ~isSubtaskTerminal(tasks'[t].subtasks[d].state)
                          /\ new.state = "running" =>
                                \E a \in 1..Len(asks') :
                                    /\ a > Len(asks)
                                    /\ asks'[a].activeTask =
                                          Some([taskId |-> t, subtaskId |-> new.id])
                                    /\ asks'[a].sent =
                                          Substituted(tasks'[t], new.prompt, 1)
                          /\ new.state = "error" =>
                                /\ new.error \in {Some(AgentBusy), Some(AgentNotFound)}
                                /\ \A a \in 1..Len(asks') :
                                      asks'[a].activeTask #
                                          Some([taskId |-> t, subtaskId |-> new.id]) ]_vars

\* s3 waits for s1 and s2, s4 for s2, which it quotes; s1 ended first, then
\* the ask of s2 failed after its agent had streamed text: s4, whose wait
\* was registered before the second wait of s3, runs on a1 with a prompt in
\* which the result of s2 is empty, and s3 was refused by the busy agent
C24_Witness ==
    \E t \in 1..Len(tasks) :
        /\ Len(tasks[t].subtasks) = 4
        /\ tasks[t].state = "running"
        /\ tasks[t].subtasks[1].state = "done"
        /\ tasks[t].subtasks[2].state = "error"
        /\ tasks[t].subtasks[2].result = None
        /\ \E a \in SubtaskAsks(t, 2) : records[asks[a].rec].lastText = << "x" >>
        /\ tasks[t].subtasks[3].state = "error"
        /\ tasks[t].subtasks[3].error = Some(AgentBusy)
        /\ SubtaskAsks(t, 3) = {}
        /\ tasks[t].subtasks[4].state = "running"
        /\ tasks[t].subtasks[4].prompt = << Word("p"), Ref("s2") >>
        /\ \E a \in SubtaskAsks(t, 4) : asks[a].sent = << "p" >>

\* no dependency path leads from subtask i of a task to subtask j or back
NoPath(task, i, j) ==
    /\ j \notin DependsWithin(task.subtasks, i, Len(task.subtasks))
    /\ i \notin DependsWithin(task.subtasks, j, Len(task.subtasks))

\* the prompts sent for subtasks to the agent of record r and not settled
TaskPromptsInFlight(r) ==
    {a \in 1..Len(asks) :
        asks[a].rec = r /\ asks[a].activeTask # None /\ asks[a].prompt = "outstanding"}

\* C25 as stated: of two subtasks of a task with the same agent and no
\* dependency path between them at most one has its ask accepted, the other,
\* once it has ended other than cancelled, is in error with the agent-busy
\* error, and no agent has two prompts of subtasks in flight
C25_AsClaimed ==
    /\ \A t \in 1..Len(tasks) : \A i, j \in 1..Len(tasks[t].subtasks) :
          LET task == tasks[t] IN
          (i # j /\ task.subtasks[i].agent = task.subtasks[j].agent /\ NoPath(task, i, j)) =>
              /\ SubtaskAsks(t, i) = {} \/ SubtaskAsks(t, j) = {}
              /\ (SubtaskAsks(t, i) # {} /\ task.subtasks[j].state \in {"done", "error"}) =>
                    /\ task.subtasks[j].state = "error"
                    /\ task.subtasks[j].error = Some(AgentBusy)
    /\ \A r \in 1..Len(records) : Cardinality(TaskPromptsInFlight(r)) <= 1

\* the subtasks of task t that start in the step on the agent called name
Starting(t, name) ==
    {i \in 1..Len(tasks[t].subtasks) :
        /\ tasks[t].subtasks[i].agent = name
        /\ tasks[t].subtasks[i].state = "pending"
        /\ tasks'[t].subtasks[i].state \in {"running", "done", "error"}}

\* C25, the part that holds: of the subtasks that start on the same agent in one step, as
\* two subtasks that become ready together do, at most one has its ask
\* accepted; every other one ends in that step in error, with the agent-busy
\* error recorded, and a subtask with that error never had a prompt sent.
\* Subtasks that become ready in different steps may each be accepted.
C25_BusyRefused ==
    [][ \A t \in 1..Len(tasks') : \A name \in Names :
            LET started == IF t <= Len(tasks) THEN Starting(t, name)
                           ELSE {i \in 1..Len(tasks'[t].subtasks) :
                                    /\ tasks'[t].subtasks[i].agent = name
                                    /\ tasks'[t].subtasks[i].state # "pending"}
                accepted(i) == {a \in 1..Len(asks') :
                                   /\ a > Len(asks)
                                   /\ asks'[a].activeTask =
                                         Some([taskId |-> t,
                                               subtaskId |-> tasks'[t].subtasks[i].id])}
                served == {i \in started : accepted(i) # {}}
            IN  /\ Cardinality(served) <= 1
                /\ \A i \in served : Cardinality(accepted(i)) = 1
                /\ \A i \in started \ served :
                      /\ tasks'[t].subtasks[i].state = "error"
                      /\ tasks'[t].subtasks[i].error = Some(AgentBusy)
                /\ \A i \in 1..Len(tasks'[t].subtasks) :
                      tasks'[t].subtasks[i].error = Some(AgentBusy) =>
                          \A a \in 1..Len(asks') :
                              asks'[a].activeTask #
                                  Some([taskId |-> t, subtaskId |-> tasks'[t].subtasks[i].id])
      ]_vars

\* two subtasks of agent a1 started together: the first runs, the second was
\* refused
C25_Witness ==
    \E t \in 1..Len(tasks) :
        /\ Len(tasks[t].subtasks) = 2
        /\ tasks[t].subtasks[1].agent = "a1"
        /\ tasks[t].subtasks[2].agent = "a1"
        /\ tasks[t].subtasks[2].dependsOn = <<>>
        /\ tasks[t].subtasks[1].state = "running"
        /\ SubtaskAsks(t, 1) # {}
        /\ tasks[t].subtasks[2].state = "error"
        /\ tasks[t].subtasks[2].error = Some(AgentBusy)
        /\ SubtaskAsks(t, 2) = {}

\* C26: when the prompt sent for a running subtask is rejected with a message,
\* the subtask is in error afterwards, its error is the classification of that
\* message, and the state of its task is the one its subtasks give
C26_SubtaskErrorClassified ==
    [][ \A a \in 1..Len(asks) : \A message \in RawErrors :
            (/\ asks[a].activeTask # None
             /\ asks[a].pc = "awaiting"
             /\ PromptReject(a, message)) =>
                LET t == asks[a].activeTask[1].taskId
                    i == findTaskSubtask(tasks[t].subtasks, asks[a].activeTask[1].subtaskId)
                IN  tasks[t].subtasks[i].state = "running" =>
                        /\ tasks'[t].subtasks[i].state = "error"
                        /\ tasks'[t].subtasks[i].error = Some(classifyAskError(message))
                        /\ tasks'[t].cancelRequested \/ StateFromSubtasks(tasks'[t]) ]_vars

\* C27: no step removes from the map a task that is running after it, however
\* old the task is and however many terminal tasks the map holds
C27_RunningNeverEvicted ==
    [][ \A t \in 1..Len(tasks) :
            (tasks[t].stored /\ tasks'[t].state = "running") => tasks'[t].stored ]_vars

\* the timer's pass has evicted tasks; the running task, last updated more than
\* a TTL ago, is still in the map
C27_Witness ==
    /\ response.op = "cleanupInterval"
    /\ response.n > 0
    /\ \E t \in 1..Len(tasks) :
          /\ tasks[t].stored
          /\ tasks[t].state = "running"
          /\ tasks[t].updatedAt < clock - TASK_TTL_MS
    /\ Len(tasks) > MAX_COMPLETED_TASKS

\* the terminal tasks of a map
StoredTerminal(ts) == {t \in 1..Len(ts) : ts[t].stored /\ isTaskTerminal(ts[t].state)}

\* a task becomes done, error or cancelled in the step
BecomesTerminal ==
    \E t \in 1..Len(tasks) :
        ~isTaskTerminal(tasks[t].state) /\ isTaskTerminal(tasks'[t].state)

\* the step runs an eviction pass: the timer's, the one at the end of
\* cancelTask, the one in runSubtask behind a subtask that ended its task, or
\* the one at the end of runTask
EndsWithPass ==
    \/ response'.op = "cleanupInterval"
    \/ response'.op = "cancelTask" /\ response'.status = 200
    \/ \E t \in 1..Len(tasks) :
          ~isTaskTerminal(tasks[t].state) /\ tasks'[t].state \in {"done", "error"}
    \/ \E t \in 1..Len(tasks) : ~tasks[t].runTaskDone /\ tasks'[t].runTaskDone

\* the step is cancelTask up to its first await of connection.cancel: the
\* task is cancelled and the pass at the end of cancelTask is still to come
CancelAwaits == Len(taskCancels') > Len(taskCancels)

\* the map as the pass of the step found it: what the step had written to the
\* tasks, and every task where it was
BeforePass ==
    [t \in 1..Len(tasks) |-> [tasks'[t] EXCEPT !.stored = tasks[t].stored]]

\* no terminal task of the map was last updated more than a TTL before now,
\* and there are at most MAX_COMPLETED_TASKS of them
NoneOlderThanTTL(ts, now) ==
    /\ \A t \in StoredTerminal(ts) : now - ts[t].updatedAt <= TASK_TTL_MS
    /\ Cardinality(StoredTerminal(ts)) <= MAX_COMPLETED_TASKS

\* every terminal task of the map was last updated less than a TTL before
\* now, and there are at most MAX_COMPLETED_TASKS of them
WithinLimits(ts, now) ==
    /\ \A t \in StoredTerminal(ts) : ts[t].updatedAt > now - TASK_TTL_MS
    /\ Cardinality(StoredTerminal(ts)) <= MAX_COMPLETED_TASKS

\* the step drops from the map the terminal tasks of the set old and the oldest
\* of the other terminal tasks beyond the newest MAX_COMPLETED_TASKS, and
\* no other task
DropsExactly(old) ==
    LET rest == StoredTerminal(BeforePass) \ old
        dropped == {t \in 1..Len(tasks) : tasks[t].stored /\ ~tasks'[t].stored}
        kept == rest \ dropped
    IN  /\ old \subseteq dropped
        /\ dropped \subseteq StoredTerminal(BeforePass)
        /\ Cardinality(kept) = IF Cardinality(rest) > MAX_COMPLETED_TASKS
                               THEN MAX_COMPLETED_TASKS ELSE Cardinality(rest)
        /\ \A d \in dropped \ old : \A k \in kept :
              BeforePass[d].updatedAt <= BeforePass[k].updatedAt

\* C28 as stated: a step in which a task becomes terminal runs an eviction
\* pass; after a step that runs a pass no stored terminal task is older than
\* the TTL and at most MAX_COMPLETED_TASKS terminal tasks are stored; the pass
\* drops exactly the terminal tasks older than the TTL and the oldest of the
\* others beyond the newest MAX_COMPLETED_TASKS
C28_AsClaimed ==
    [][ /\ BecomesTerminal => EndsWithPass
        /\ EndsWithPass =>
              /\ NoneOlderThanTTL(tasks', clock')
              /\ DropsExactly({t \in StoredTerminal(BeforePass) :
                                  clock - BeforePass[t].updatedAt > TASK_TTL_MS}) ]_vars

\* C28, amended: a step in which a task becomes terminal runs an eviction
\* pass, except cancelTask when it has to await connection.cancel: its pass
\* runs in the step that answers DELETE /tasks/:id.  After a step that runs a
\* pass every stored terminal task was last updated less than a TTL ago and at
\* most MAX_COMPLETED_TASKS terminal tasks are stored; the pass drops exactly
\* the terminal tasks last updated a TTL ago or earlier (updatedAt <= now -
\* TTL: a task exactly one TTL old is dropped too) and the oldest of the
\* others beyond the newest MAX_COMPLETED_TASKS; the timer's pass changes
\* nothing else, and a step without a pass drops no task.
C28_EvictionPass ==
    [][ /\ BecomesTerminal => EndsWithPass \/ CancelAwaits
        /\ EndsWithPass =>
              /\ WithinLimits(tasks', clock')
              /\ DropsExactly({t \in StoredTerminal(BeforePass) :
                                  BeforePass[t].updatedAt <= clock - TASK_TTL_MS})
        /\ response'.op = "cleanupInterval" => BeforePass = tasks
        /\ ~EndsWithPass =>
              \A t \in 1..Len(tasks) : tasks'[t].stored = tasks[t].stored ]_vars

\* the timer's pass has dropped a terminal task last updated exactly one TTL
\* ago: the map never held more than MAX_COMPLETED_TASKS terminal tasks
C28_Witness ==
    /\ response.op = "cleanupInterval"
    /\ response.n > 0
    /\ Cardinality({t \in 1..Len(tasks) : isTaskTerminal(tasks[t].state)})
          <= MAX_COMPLETED_TASKS
    /\ \E t \in 1..Len(tasks) :
          /\ ~tasks[t].stored
          /\ isTaskTerminal(tasks[t].state)
          /\ tasks[t].updatedAt = clock - TASK_TTL_MS
    /\ \A t \in 1..Len(tasks) :
          ~tasks[t].stored => tasks[t].updatedAt >= clock - TASK_TTL_MS


\* the pieces of a chunk between its line feeds, from the character after
\* position c on
RECURSIVE PiecesFrom(_, _)
PiecesFrom(data, c) ==
    LET ends == {b \in (c + 1)..(Len(data) + 1) : b = Len(data) + 1 \/ data[b] = "\n"}
        next == CHOOSE b \in ends : \A e \in ends : b <= e
    IN  << SubSeq(data, c + 1, next - 1) >>
        \o (IF next = Len(data) + 1 THEN <<>> ELSE PiecesFrom(data, next))

\* a text without the whitespace around it
Strip(s) ==
    LET ks == {k \in 1..Len(s) : s[k] \notin Whitespace} IN
    IF ks = {} THEN <<>>
    ELSE SubSeq(s, CHOOSE k \in ks : \A j \in ks : k <= j,
                   CHOOSE k \in ks : \A j \in ks : k >= j)

\* the non-empty lines of a chunk, stripped, in the order of the chunk
ReceivedLines(data) ==
    LET pieces == PiecesFrom(data, 0) IN
    SelectSeq([i \in 1..Len(pieces) |-> Strip(pieces[i])], LAMBDA line : line # <<>>)

LastLines(lines) ==
    IF Len(lines) <= MAX_STDERR_LINES THEN lines
    ELSE SubSeq(lines, Len(lines) - MAX_STDERR_LINES + 1, Len(lines))

EveryChunk == UNION {Chunks(label) : label \in {"a", "b", "c"}}

\* C29: the stderrBuffer of every agent holds at most 50 entries, each a
\* non-empty line without whitespace around it, and a chunk of stderr leaves
\* in it the last 50 of its earlier entries followed by the non-empty lines
\* of the chunk, in their order: from the empty buffer of a new agent, the
\* last (up to 50) non-empty lines received, oldest dropped first.
C29_StderrBuffer ==
    /\ [](\A r \in 1..Len(records) :
            /\ Len(records[r].stderrBuffer) <= MAX_STDERR_LINES
            /\ \A i \in 1..Len(records[r].stderrBuffer) :
                  LET line == records[r].stderrBuffer[i] IN
                  /\ line # <<>>
                  /\ line[1] \notin Whitespace
                  /\ line[Len(line)] \notin Whitespace)
    /\ [][\A r \in 1..Len(records), data \in EveryChunk :
            StderrData(r, data) =>
                records'[r].stderrBuffer =
                    LastLines(records[r].stderrBuffer \o ReceivedLines(data))]_vars

\* a full buffer that lost its oldest lines and ends with the lines of a
\* chunk of three
C29_Witness ==
    \E r \in 1..Len(records) :
        LET buffer == records[r].stderrBuffer IN
        /\ Len(buffer) = MAX_STDERR_LINES
        /\ buffer[1] # <<"a">>
        /\ buffer[MAX_STDERR_LINES] = <<"c", " ", "c">>
        /\ records[r].lastError = Some(<<"c", " ", "c">>)

\* the child of record r exits in this step
Exits(r) == children[r] # "exited" /\ children'[r] = "exited"

\* C30: when the child of a registered agent exits, every permission request
\* pending on the agent is resolved with cancelled (and no other request is),
\* its queue is empty, its state is error if it was error and stopped
\* otherwise, and its lastError is the exit message if none was recorded and
\* the recorded one otherwise.
C30_ExitOfRegistered ==
    [][\A r \in 1..Len(records) :
         (Exits(r) /\ agents[records[r].name] = r) =>
            /\ records'[r].pendingPermissions = <<>>
            /\ \A id \in 1..Len(continuations) :
                  continuations'[id].outcomes =
                      IF InQueue(id, r) THEN Append(continuations[id].outcomes, Cancelled)
                      ELSE continuations[id].outcomes
            /\ records'[r].state = IF records[r].state = "error" THEN "error" ELSE "stopped"
            /\ records'[r].lastError =
                  IF records[r].lastError = None THEN Some(ExitMessage(r))
                  ELSE records[r].lastError]_vars

\* the child of a registered agent in state error has exited: its request was
\* cancelled, it is still in error and keeps the error recorded before
C30_Witness ==
    \E r \in 1..Len(records) :
        /\ agents[records[r].name] = r
        /\ children[r] = "exited"
        /\ records[r].state = "error"
        /\ records[r].lastError \notin {None, Some(ExitMessage(r))}
        /\ \E id \in 1..Len(continuations) :
              continuations[id].rec = r /\ continuations[id].outcomes = << Cancelled >>

\* a child is spawned under the name in this step
Spawns(name) == Len(starting'[name].handshake) > Len(starting[name].handshake)

\* this step spawns no child and registers no record
NothingStarted ==
    /\ \A n \in Names : ~Spawns(n)
    /\ children' = children
    /\ records' = records
    /\ agents' = agents

\* C31: a start whose preflight fails (binary missing, credential missing,
\* endpoint unreachable) answers 400 with the preflight message, spawns no
\* child and registers no record; a child is spawned only in the step in
\* which the preflight of its start passes.
C31_PreflightGates ==
    [][ /\ \A name \in Names, type \in AgentTypes, binary \in BOOLEAN, key \in BOOLEAN :
             ( /\ agents[name] = 0
               /\ preflightCheck(type, binary, key) # None
               /\ StartAgentCheck(name, type, binary, key) )
             => ( /\ response'.status = 400
                  /\ response'.error = preflightCheck(type, binary, key)[1]
                  /\ NothingStarted )
        /\ \A name \in Names :
             PreflightSettle(name, FALSE)
             => ( /\ response'.status = 400
                  /\ response'.error = Unreachable
                  /\ NothingStarted )
        /\ \A name \in Names :
             Spawns(name)
             => \/ PreflightSettle(name, TRUE)
                \/ \E type \in AgentTypes, binary \in BOOLEAN, key \in BOOLEAN :
                      /\ preflightCheck(type, binary, key) = None
                      /\ getTypeBaseUrl(type) = None
                      /\ StartAgentCheck(name, type, binary, key) ]_vars

\* a start was refused for an unreachable endpoint, with an agent registered
\* earlier and no child awaiting its handshake
C31_Witness ==
    /\ response.op = "start"
    /\ response.status = 400
    /\ response.error = Unreachable
    /\ Len(records) = 1
    /\ Len(children) = 1
    /\ \A n \in Names : starting[n] = NoStart

\* C32: while an agent is registered under a name (no stop since its start),
\* no start under that name succeeds, and a start that answers leaves the
\* registration, the record and its child as they were: under one name at
\* most one child is spawned and registered.
C32_OneAgentPerName ==
    [][\A name \in Names :
         (agents[name] # 0 /\ response'.op = "start")
         => ( /\ response'.status # 201
              /\ agents'[name] = agents[name]
              /\ records'[agents[name]] = records[agents[name]]
              /\ children'[agents[name]] = children[agents[name]] )]_vars

\* ask a returns or throws in this step
Finishes(a) == asks[a].pc = "awaiting" /\ asks'[a].pc = "returned"

\* ask b is awaiting its prompt before and after this step
StaysInFlight(b) == asks[b].pc = "awaiting" /\ asks'[b].pc = "awaiting"

\* C33: when an ask finishes on an agent on which another ask is still in
\* flight, the activeTask marker that the other ask set, if it is the one on
\* the record, is still on the record after the step (in steps that accept
\* no new ask).
C33_FinallyScoped ==
    [][\A a \in 1..Len(asks), b \in 1..Len(asks) :
         ( /\ a # b
           /\ asks[a].rec = asks[b].rec
           /\ Finishes(a)
           /\ StaysInFlight(b)
           /\ Len(asks') = Len(asks)
           /\ asks[b].activeTask # None
           /\ records[asks[b].rec].activeTask = asks[b].activeTask )
         => records'[asks[b].rec].activeTask = asks[b].activeTask]_vars

\* C34: in every reachable state, a record whose activeTask is a marker has
\* an ask in flight on it that was made with that marker.
C34_MarkerOnlyWhileInFlight ==
    \A r \in 1..Len(records) :
        records[r].activeTask # None
        => \E a \in 1..Len(asks) :
              /\ asks[a].rec = r
              /\ asks[a].pc = "awaiting"
              /\ asks[a].activeTask = records[r].activeTask

\* a marker on a record with two asks in flight, the older one direct
C34_Witness ==
    \E r \in 1..Len(records), a \in 1..Len(asks), b \in 1..Len(asks) :
        /\ records[r].activeTask # None
        /\ a < b
        /\ asks[a].rec = r /\ asks[a].pc = "awaiting" /\ asks[a].activeTask = None
        /\ asks[b].rec = r /\ asks[b].pc = "awaiting"
        /\ asks[b].activeTask = records[r].activeTask

\* the asks that passed an onChunk and have not returned, by agent name
InFlightSubscribers(name) ==
    {a \in 1..Len(asks) : /\ asks[a].onChunk
                          /\ asks[a].pc = "awaiting"
                          /\ records[asks[a].rec].name = name}

\* C35: in every reachable state the subscribers of a name are the asks on
\* it that passed an onChunk and are in flight; an ask that returned or threw
\* (answer, timeout, prompt error) receives no chunk afterwards; an ask
\* refused as busy or not found changes no subscriber set.
C35_SubscribedWhileInFlight ==
    /\ [](\A name \in Names : chunkSubscribers[name] = InFlightSubscribers(name))
    /\ [][ /\ \A a \in 1..Len(asks) :
                asks[a].pc = "returned" => asks'[a].chunks = asks[a].chunks
           /\ (response'.op = "ask" /\ response'.error \in {"Agent is busy", "Agent not found"})
                => chunkSubscribers' = chunkSubscribers ]_vars

\* a streaming ask has returned and the agent streamed text to a later ask
\* made without a subscriber: nobody is subscribed
C35_Witness ==
    \E a \in 1..Len(asks), b \in 1..Len(asks) :
        /\ a < b
        /\ asks[a].onChunk /\ asks[a].pc = "returned" /\ asks[a].chunks = <<>>
        /\ ~asks[b].onChunk /\ asks[b].pc = "awaiting"
        /\ records[asks[b].rec].currentText # <<>>
        /\ \A name \in Names : chunkSubscribers[name] = {}

\* how often subtask i stands among the waiters of a terminal signal
Registrations(waiters, i) == Cardinality({k \in 1..Len(waiters) : waiters[k] = i})

\* the terminal signal of a subtask has been resolved once if the subtask is
\* done, error or cancelled, and not at all otherwise; a subtask waits in a
\* race exactly when it awaits some dependency, each dependency it awaits is
\* unfinished and unsignalled and holds one registration of the subtask, and a
\* resolved signal has no waiter left
SignalsAndWaiters ==
    \A t \in 1..Len(tasks) : \A i \in 1..Len(tasks[t].subtasks) :
        LET subtask == tasks[t].subtasks[i] IN
        /\ subtask.signals = IF isSubtaskTerminal(subtask.state) THEN 1 ELSE 0
        /\ subtask.signals = 1 => subtask.waiters = <<>>
        /\ subtask.pc = "waiting" <=> subtask.awaited # {}
        /\ subtask.pc = "waiting" => subtask.state = "pending"
        /\ \A d \in subtask.awaited :
              /\ d \in DependenciesOf(tasks[t], i)
              /\ tasks[t].subtasks[d].signals = 0
              /\ Registrations(tasks[t].subtasks[d].waiters, i) = 1
        /\ \A k \in 1..Len(subtask.waiters) :
              i \in tasks[t].subtasks[subtask.waiters[k]].awaited

\* C36: in every reachable state the terminal signal of a subtask has been
\* resolved once if the subtask is done, error or cancelled, and not at all
\* otherwise; a subtask waiting in a race awaits only unfinished dependencies
\* whose signal is unresolved; and a waiting subtask leaves its race only in a
\* step in which a dependency it awaited became terminal and resolved its
\* signal, or in which its task was cancelled.
C36_SignalIffTerminal ==
    /\ []SignalsAndWaiters
    /\ [][ \A t \in 1..Len(tasks) : \A i \in 1..Len(tasks[t].subtasks) :
              LET old == tasks[t].subtasks[i]
                  new == tasks'[t].subtasks[i]
              IN  /\ new.signals >= old.signals
                  /\ (old.pc = "waiting" /\ (new.pc # "waiting" \/ new.awaited # old.awaited)) =>
                        \/ \E d \in old.awaited :
                              /\ tasks'[t].subtasks[d].signals = 1
                              /\ isSubtaskTerminal(tasks'[t].subtasks[d].state)
                        \/ ~tasks[t].cancelRequested /\ tasks'[t].cancelRequested ]_vars

\* s3 waited for s1 and s2, s4 for s2: the signal of s1 woke s2 and s3, s3
\* waited again behind s4, and the signal of s2 woke s4 before s3; four
\* signals resolved once each, s3 by its own failure on the busy agent
C36_Witness ==
    \E t \in 1..Len(tasks) :
        /\ Len(tasks[t].subtasks) = 4
        /\ tasks[t].subtasks[2].dependsOn = << "s1" >>
        /\ tasks[t].subtasks[1].state = "done" /\ tasks[t].subtasks[1].signals = 1
        /\ tasks[t].subtasks[2].state = "done" /\ tasks[t].subtasks[2].signals = 1
        /\ tasks[t].subtasks[3].state = "error" /\ tasks[t].subtasks[3].signals = 1
        /\ tasks[t].subtasks[3].error = Some(AgentBusy)
        /\ tasks[t].subtasks[4].state = "cancelled" /\ tasks[t].subtasks[4].signals = 1
        /\ tasks[t].cancelRequested
        /\ SubtaskAsks(t, 4) # {}

\* the task as subtask i may read it if its prompt depends on its declared
\* dependencies alone: the other subtasks have no result to quote
DependenciesOnly(task, i) ==
    [task EXCEPT !.subtasks = [d \in 1..Len(task.subtasks) |->
                                  IF d \in DependenciesOf(task, i) THEN task.subtasks[d]
                                  ELSE [task.subtasks[d] EXCEPT !.result = None]]]

\* C37: the prompt sent for a subtask is its template with the results of
\* its declared dependencies substituted, whatever the subtasks it does not
\* depend on have done by the time it starts.
C37_PromptFromDependencies ==
    \A t \in 1..Len(tasks) : \A i \in 1..Len(tasks[t].subtasks) :
        \A a \in SubtaskAsks(t, i) :
            asks[a].sent =
                Substituted(DependenciesOnly(tasks[t], i), tasks[t].subtasks[i].prompt, 1)

\* task t exists and it and all its subtasks are terminal
Finished(t) ==
    /\ t <= Len(tasks)
    /\ isTaskTerminal(tasks[t].state)
    /\ \A i \in 1..Len(tasks[t].subtasks) : isSubtaskTerminal(tasks[t].subtasks[i].state)

\* C38: when every ask settles, every created task comes to a state in which
\* it and each of its subtasks are done, error or cancelled; and in no
\* reachable state is a task running while all its subtasks are terminal.
C38_TasksFinish ==
    /\ \A t \in 1..(MaxTasks + 1) : (t <= Len(tasks)) ~> Finished(t)
    /\ [](\A t \in 1..Len(tasks) :
            (\A i \in 1..Len(tasks[t].subtasks) :
                isSubtaskTerminal(tasks[t].subtasks[i].state))
            => isTaskTerminal(tasks[t].state))

\* a task of four subtasks finished by timers alone: s1 timed out, then s2;
\* s4, woken before s3, ran and timed out, and s3 had failed on the busy agent
C38_Witness ==
    \E t \in 1..Len(tasks) :
        /\ Finished(t)
        /\ tasks[t].runTaskDone
        /\ tasks[t].state = "error"
        /\ Len(tasks[t].subtasks) = 4
        /\ tasks[t].subtasks[2].dependsOn = << "s1" >>
        /\ \A i \in {1, 2, 4} : /\ tasks[t].subtasks[i].state = "error"
                                  /\ tasks[t].subtasks[i].error = Some(TimeoutMessage)
        /\ tasks[t].subtasks[3].error = Some(AgentBusy)

\* C39: a stored task whose state is done, error or cancelled keeps that state
\* in every step that leaves it stored: late settlements, DELETE /tasks/:id
\* and eviction passes change it no more.
C39_TerminalAbsorbing ==
    [][\A t \in 1..Len(tasks) :
          (tasks[t].stored /\ isTaskTerminal(tasks[t].state) /\ tasks'[t].stored)
          => tasks'[t].state = tasks[t].state]_vars

\* C40: when the child of a record that stopAgent stopped exits, no other
\* record changes its state, its lastError or its pendingPermissions: the
\* record a later startAgent registered under the same name is left alone.
C40_ExitOfStoppedChild ==
    [][\A r \in 1..Len(records) :
          (Exits(r) /\ children[r] = "killed") =>
             \A t \in (1..Len(records)) \ {r} :
                 /\ records'[t].state = records[t].state
                 /\ records'[t].lastError = records[t].lastError
                 /\ records'[t].pendingPermissions = records[t].pendingPermissions]_vars
====
